---- MODULE Spec2Model ----
(***************************************************************************)
(* Etlon Coffee ordering bot: the loyalty ledger (bot/loyalty.py), the     *)
(* order store (bot/database.py), the client checkout session              *)
(* (bot/handlers/client.py) and the barista panel                          *)
(* (bot/handlers/barista.py).                                              *)
(*                                                                         *)
(* The module holds several specifications over the same variables, each   *)
(* exercising one part of the program:                                     *)
(*   SpecMaxRedeem  the pure function calculate_max_redeem                 *)
(*   SpecLedger     accrue_points / redeem_points / refund_points          *)
(*   SpecStamps     increment_stamps / use_free_drink                      *)
(*   SpecOrders     the order store, the barista panel and the client's    *)
(*                  order history with its cancel button                   *)
(*   SpecCart       the menu flow that fills a cart, in one message        *)
(*   SpecCartStale  the same with /start sent again, so that keyboards of  *)
(*                  earlier messages stay in the chat                      *)
(*   SpecCheckout   the whole client flow from /start to the confirmation  *)
(*   SpecTxn        batches of concurrent ledger calls, statement by        *)
(*                  statement; SpecTxnFault: the same with failing         *)
(*                  statements                                             *)
(*   SpecCheckoutStale  the checkout with keyboards of abandoned checkouts *)
(*   SpecCancel     order with a bonus, cancellation, barista panel;       *)
(*                  SpecCancelFault: cancellation on a failing store       *)
(*   SpecLeak       callbacks that address orders of other users           *)
(*   SpecNotify     the confirmation with unreachable baristas             *)
(*   SpecReady      status changes with an unreachable owner               *)
(*   SpecMenu       the menu while the barista hides and shows items       *)
(*   SpecCartEdit   quantities and comments of the lines of a cart         *)
(*   SpecImmutable  orders that are moved on, cancelled, refunded and      *)
(*                  repeated while their item is hidden                    *)
(*   SpecGetOrCreate  get_or_create_loyalty among concurrent ledger calls  *)
(*   SpecStart      /start in the middle of the order flow                 *)
(*   SpecFavorites  the favourites list and the repeat of an order         *)
(*   SpecRepeat     the repeat of an order with items hidden and shown     *)
(*   SpecStaff      panel callbacks sent by users who are not baristas     *)
(*   SpecConfirm    confirm_order step by step, pressed twice              *)
(***************************************************************************)
EXTENDS Integers, Sequences, FiniteSets, TLC

(***************************************************************************)
(* Program constants (bot/loyalty.py:12-14).                               *)
(***************************************************************************)
POINTS_PER_100_RUB == 5
MAX_REDEEM_PERCENT == 30
STAMPS_FOR_FREE_DRINK == 6

(***************************************************************************)
(* Bounds of the model.                                                    *)
(***************************************************************************)
MaxPoints == 20        \* a ledger call that would push a balance above this is not issued
MaxHistory == 3        \* points_history rows
MaxStamps == 7         \* increment_stamps is not issued beyond this count
MaxTotal == 12         \* calculate_max_redeem: order totals 0..MaxTotal
MaxBalance == 8        \* calculate_max_redeem: balances 0..MaxBalance

Users == {1, 2}
OrderIds == {1, 2}
\* order totals handed to accrue_points: below, at and above a multiple of 100
OrderTotals == {0, 99, 100, 250}
\* amounts handed to redeem_points: negative, zero, positive
RedeemAmounts == {-5, 0, 5, 10}

VARIABLES
    loyalty,         \* table loyalty: user_id -> row, for the users that have a row
    points_history,  \* table points_history, in rowid order
    orders,          \* table orders, in id order: orders[i] is the row with id i
    views,           \* barista chat: message id -> the inline keyboard it shows
    menu_available,  \* table menu_items: item id -> column available
    state,           \* FSM storage: user -> state of the client session
    data,            \* FSM storage: user -> data dict of the client session
    msgs,            \* client chats: user -> message id -> the inline keyboard it shows
    calls,           \* ledger calls in flight: their arguments, position and locals
    txn,             \* the open write transaction: its owner and its uncommitted tables
    last             \* the last call made: its name, arguments and return value

vars == <<loyalty, points_history, orders, views, menu_available, state, data, msgs,
          calls, txn, last>>

txnVars == <<calls, txn>>
\* the ledger tables and the transactions in flight on them
ledgerVars == <<loyalty, points_history, txnVars>>
\* the tables the barista works on and the barista's chat
orderVars == <<orders, views, menu_available>>
sessionVars == <<state, data, msgs>>

Min(a, b) == IF a <= b THEN a ELSE b
Abs(a) == IF a < 0 THEN -a ELSE a

(***************************************************************************)
(* Table loyalty: the column defaults of a freshly inserted row.           *)
(***************************************************************************)
NewLoyaltyRow == [points |-> 0, stamps |-> 0, total_orders |-> 0, total_spent |-> 0]

\* INSERT OR IGNORE INTO loyalty (user_id) VALUES (?)
InsertOrIgnoreLoyalty(L, user_id) ==
    IF user_id \in DOMAIN L THEN L ELSE L @@ (user_id :> NewLoyaltyRow)

\* UPDATE loyalty SET ... WHERE user_id = ?  (no row: nothing is updated)
UpdateLoyalty(L, user_id, row) ==
    IF user_id \in DOMAIN L THEN [L EXCEPT ![user_id] = row] ELSE L

HistoryEntry(user_id, amount, operation, order_id) ==
    [user_id |-> user_id, amount |-> amount, operation |-> operation, order_id |-> order_id]

(***************************************************************************)
(* calculate_max_redeem(order_total, user_points)                          *)
(***************************************************************************)
calculate_max_redeem_wrong_base(order_total, user_points) ==
    Min(user_points, (user_points * MAX_REDEEM_PERCENT) \div 100)

calculate_max_redeem(order_total, user_points) ==
    LET max_by_percent == (order_total * MAX_REDEEM_PERCENT) \div 100
    IN  Min(user_points, max_by_percent)

(***************************************************************************)
(* accrue_points(user_id, order_total, order_id): the value returned and   *)
(* the tables after the call.                                              *)
(***************************************************************************)
PointsEarned(order_total) == (order_total \div 100) * POINTS_PER_100_RUB

accrue_points_always_writes(L, H, user_id, order_total, order_id) ==
    LET points_earned == PointsEarned(order_total)
        L1 == InsertOrIgnoreLoyalty(L, user_id)
        row == L1[user_id]
    IN  [ret |-> points_earned,
         loyalty |-> UpdateLoyalty(L1, user_id,
                        [row EXCEPT !.points = @ + points_earned,
                                    !.total_orders = @ + 1,
                                    !.total_spent = @ + order_total]),
         history |-> Append(H, HistoryEntry(user_id, points_earned, "accrual", order_id))]

accrue_points(L, H, user_id, order_total, order_id) ==
    LET points_earned == PointsEarned(order_total)
    IN  IF points_earned <= 0
        THEN [ret |-> 0, loyalty |-> L, history |-> H]
        ELSE LET L1 == InsertOrIgnoreLoyalty(L, user_id)
                 row == L1[user_id]
             IN  [ret |-> points_earned,
                  loyalty |-> UpdateLoyalty(L1, user_id,
                                 [row EXCEPT !.points = @ + points_earned,
                                             !.total_orders = @ + 1,
                                             !.total_spent = @ + order_total]),
                  history |-> Append(H, HistoryEntry(user_id, points_earned, "accrual", order_id))]

(***************************************************************************)
(* redeem_points(user_id, amount, order_id)                                *)
(***************************************************************************)
redeem_points_takes_remainder(L, H, user_id, amount, order_id) ==
    IF amount <= 0 \/ user_id \notin DOMAIN L
    THEN [ret |-> FALSE, loyalty |-> L, history |-> H]
    ELSE IF L[user_id].points < amount
         THEN [ret |-> FALSE,
               loyalty |-> UpdateLoyalty(L, user_id, [L[user_id] EXCEPT !.points = 0]),
               history |-> Append(H, HistoryEntry(user_id, -L[user_id].points,
                                                  "redemption", order_id))]
         ELSE [ret |-> TRUE,
               loyalty |-> UpdateLoyalty(L, user_id, [L[user_id] EXCEPT !.points = @ - amount]),
               history |-> Append(H, HistoryEntry(user_id, -amount, "redemption", order_id))]

redeem_points_no_balance_check(L, H, user_id, amount, order_id) ==
    IF amount <= 0 \/ user_id \notin DOMAIN L
    THEN [ret |-> FALSE, loyalty |-> L, history |-> H]
    ELSE [ret |-> TRUE,
          loyalty |-> UpdateLoyalty(L, user_id, [L[user_id] EXCEPT !.points = @ - amount]),
          history |-> Append(H, HistoryEntry(user_id, -amount, "redemption", order_id))]

redeem_points(L, H, user_id, amount, order_id) ==
    IF amount <= 0
    THEN [ret |-> FALSE, loyalty |-> L, history |-> H]
    ELSE IF user_id \notin DOMAIN L \/ L[user_id].points < amount
         THEN [ret |-> FALSE, loyalty |-> L, history |-> H]
         ELSE [ret |-> TRUE,
               loyalty |-> UpdateLoyalty(L, user_id, [L[user_id] EXCEPT !.points = @ - amount]),
               history |-> Append(H, HistoryEntry(user_id, -amount, "redemption", order_id))]

(***************************************************************************)
(* refund_points(user_id, order_id).  The SELECT has no ORDER BY and the   *)
(* code takes fetchone(): any of the matching rows may be the one read, so *)
(* the call has one outcome per matching row.                              *)
(***************************************************************************)
RedemptionRows(H, user_id, order_id) ==
    {i \in 1..Len(H) : /\ H[i].user_id = user_id
                       /\ H[i].order_id = order_id
                       /\ H[i].operation = "redemption"}

RefundOf(L, H, user_id, order_id, redeemed_amount) ==
    IF redeemed_amount <= 0
    THEN [ret |-> 0, loyalty |-> L, history |-> H]
    ELSE [ret |-> redeemed_amount,
          loyalty |-> IF user_id \in DOMAIN L
                      THEN UpdateLoyalty(L, user_id,
                               [L[user_id] EXCEPT !.points = @ + redeemed_amount])
                      ELSE L,
          history |-> Append(H, HistoryEntry(user_id, redeemed_amount, "refund", order_id))]

refund_points_ignores_order(L, H, user_id, order_id) ==
    LET rows == {i \in 1..Len(H) : H[i].user_id = user_id /\ H[i].operation = "redemption"}
    IN  IF rows = {}
        THEN {[ret |-> 0, loyalty |-> L, history |-> H]}
        ELSE {RefundOf(L, H, user_id, order_id, Abs(H[i].amount)) : i \in rows}

refund_points(L, H, user_id, order_id) ==
    LET rows == RedemptionRows(H, user_id, order_id)
    IN  IF rows = {}
        THEN {[ret |-> 0, loyalty |-> L, history |-> H]}
        ELSE {RefundOf(L, H, user_id, order_id, Abs(H[i].amount)) : i \in rows}

(***************************************************************************)
(* increment_stamps(user_id) and use_free_drink(user_id)                   *)
(***************************************************************************)
increment_stamps_resets(L, user_id) ==
    LET L1 == InsertOrIgnoreLoyalty(L, user_id)
        new_stamps == L1[user_id].stamps + 1
        earned_free_drink == new_stamps >= STAMPS_FOR_FREE_DRINK
    IN  [new_stamps |-> new_stamps,
         earned_free_drink |-> earned_free_drink,
         loyalty |-> UpdateLoyalty(L1, user_id,
                        [L1[user_id] EXCEPT !.stamps = IF earned_free_drink THEN 0 ELSE new_stamps])]

increment_stamps(L, user_id) ==
    LET L1 == InsertOrIgnoreLoyalty(L, user_id)
        current_stamps == L1[user_id].stamps
        new_stamps == current_stamps + 1
        earned_free_drink == new_stamps >= STAMPS_FOR_FREE_DRINK
    IN  [new_stamps |-> new_stamps,
         earned_free_drink |-> earned_free_drink,
         loyalty |-> UpdateLoyalty(L1, user_id, [L1[user_id] EXCEPT !.stamps = new_stamps])]

use_free_drink_clears_points(L, user_id) ==
    IF user_id \notin DOMAIN L \/ L[user_id].stamps < STAMPS_FOR_FREE_DRINK
    THEN [ret |-> FALSE, loyalty |-> L]
    ELSE [ret |-> TRUE,
          loyalty |-> UpdateLoyalty(L, user_id, [L[user_id] EXCEPT !.stamps = 0, !.points = 0])]

use_free_drink(L, user_id) ==
    IF user_id \notin DOMAIN L \/ L[user_id].stamps < STAMPS_FOR_FREE_DRINK
    THEN [ret |-> FALSE, loyalty |-> L]
    ELSE [ret |-> TRUE,
          loyalty |-> UpdateLoyalty(L, user_id, [L[user_id] EXCEPT !.stamps = 0])]

(***************************************************************************)
(* get_or_create_loyalty(user_id)                                          *)
(***************************************************************************)
get_or_create_loyalty(L, user_id) ==
    IF user_id \in DOMAIN L
    THEN [ret |-> L[user_id], loyalty |-> L]
    ELSE [ret |-> NewLoyaltyRow, loyalty |-> L @@ (user_id :> NewLoyaltyRow)]

PointsOf(L, user_id) == IF user_id \in DOMAIN L THEN L[user_id].points ELSE 0
StampsOf(L, user_id) == IF user_id \in DOMAIN L THEN L[user_id].stamps ELSE 0

\* no write transaction is open
NoTxn == [owner |-> 0]

\* column available of table menu_items as seeded: item 5 is hidden
seeded_available ==
    (1 :> TRUE) @@ (2 :> TRUE) @@ (3 :> TRUE) @@ (4 :> TRUE) @@ (5 :> FALSE)

(***************************************************************************)
(* The state after start-up: empty tables (bot/database.py:15-114), an     *)
(* empty MemoryStorage (bot/main.py) and no message sent yet.              *)
(***************************************************************************)
InitStores ==
    /\ loyalty = <<>>
    /\ points_history = <<>>
    /\ orders = <<>>
    /\ views = <<>>
    /\ menu_available = seeded_available
    /\ state = [u \in Users |-> "None"]
    /\ data = [u \in Users |-> <<>>]
    /\ msgs = [u \in Users |-> <<>>]
    /\ calls = <<>>
    /\ txn = NoTxn

(***************************************************************************)
(* SpecMaxRedeem: calculate_max_redeem applied to every pair of a total    *)
(* and a balance within the bounds.                                        *)
(***************************************************************************)
InitMaxRedeem ==
    /\ InitStores
    /\ last \in [op : {"input"}, order_total : 0..MaxTotal, user_points : 0..MaxBalance]

CalculateMaxRedeemCall ==
    /\ last.op = "input"
    /\ last' = [op |-> "calculate_max_redeem",
                order_total |-> last.order_total,
                user_points |-> last.user_points,
                ret |-> calculate_max_redeem(last.order_total, last.user_points)]
    /\ UNCHANGED <<ledgerVars, orderVars, sessionVars>>

NextMaxRedeem == CalculateMaxRedeemCall

SpecMaxRedeem == InitMaxRedeem /\ [][NextMaxRedeem]_vars

(***************************************************************************)
(* SpecLedger: the points operations of bot/loyalty.py called in any order *)
(* on an initially empty database.                                         *)
(***************************************************************************)
InitLedger ==
    /\ InitStores
    /\ last = [op |-> "none"]

GetOrCreateLoyaltyCall ==
    \E user_id \in Users :
        LET r == get_or_create_loyalty(loyalty, user_id)
        IN  /\ loyalty' = r.loyalty
            /\ last' = [op |-> "get_or_create_loyalty", user_id |-> user_id, ret |-> r.ret]
            /\ UNCHANGED <<points_history, txnVars, orderVars, sessionVars>>

AccruePointsCall ==
    \E user_id \in Users, order_total \in OrderTotals, order_id \in OrderIds :
        LET r == accrue_points(loyalty, points_history, user_id, order_total, order_id)
        IN  /\ Len(r.history) <= MaxHistory
            /\ PointsOf(r.loyalty, user_id) <= MaxPoints
            /\ loyalty' = r.loyalty
            /\ points_history' = r.history
            /\ last' = [op |-> "accrue_points", user_id |-> user_id,
                        order_total |-> order_total, order_id |-> order_id, ret |-> r.ret]
            /\ UNCHANGED <<txnVars, orderVars, sessionVars>>

\* redeem_points is called by confirm_order alone, with the id of the order
\* create_order has just inserted (AUTOINCREMENT): an order id that already
\* has a redemption row is never passed again.
RedeemPointsCall ==
    \E user_id \in Users, amount \in RedeemAmounts, order_id \in OrderIds :
        LET r == redeem_points(loyalty, points_history, user_id, amount, order_id)
        IN  /\ \A i \in 1..Len(points_history) :
                  ~(points_history[i].operation = "redemption"
                    /\ points_history[i].order_id = order_id)
            /\ Len(r.history) <= MaxHistory
            /\ loyalty' = r.loyalty
            /\ points_history' = r.history
            /\ last' = [op |-> "redeem_points", user_id |-> user_id, amount |-> amount,
                        order_id |-> order_id, ret |-> r.ret,
                        points_before |-> PointsOf(loyalty, user_id)]
            /\ UNCHANGED <<txnVars, orderVars, sessionVars>>

RefundPointsCall ==
    \E user_id \in Users, order_id \in OrderIds :
        \E r \in refund_points(loyalty, points_history, user_id, order_id) :
            /\ Len(r.history) <= MaxHistory
            /\ PointsOf(r.loyalty, user_id) <= MaxPoints
            /\ loyalty' = r.loyalty
            /\ points_history' = r.history
            /\ last' = [op |-> "refund_points", user_id |-> user_id,
                        order_id |-> order_id, ret |-> r.ret]
            /\ UNCHANGED <<txnVars, orderVars, sessionVars>>

NextLedger ==
    \/ AccruePointsCall
    \/ RedeemPointsCall
    \/ RefundPointsCall

SpecLedger == InitLedger /\ [][NextLedger]_vars

(***************************************************************************)
(* SpecStamps: the stamp operations, with accruals so that accounts hold   *)
(* points.                                                                 *)
(***************************************************************************)
IncrementStampsCall ==
    \E user_id \in Users :
        LET r == increment_stamps(loyalty, user_id)
        IN  /\ r.new_stamps <= MaxStamps
            /\ loyalty' = r.loyalty
            /\ last' = [op |-> "increment_stamps", user_id |-> user_id,
                        new_stamps |-> r.new_stamps,
                        earned_free_drink |-> r.earned_free_drink]
            /\ UNCHANGED <<points_history, txnVars, orderVars, sessionVars>>

UseFreeDrinkCall ==
    \E user_id \in Users :
        LET r == use_free_drink(loyalty, user_id)
        IN  /\ loyalty' = r.loyalty
            /\ last' = [op |-> "use_free_drink", user_id |-> user_id, ret |-> r.ret]
            /\ UNCHANGED <<points_history, txnVars, orderVars, sessionVars>>

StampsAccrueCall ==
    \E user_id \in Users, order_total \in {100} :
        LET r == accrue_points(loyalty, points_history, user_id, order_total, 1)
        IN  /\ Len(r.history) <= 1
            /\ loyalty' = r.loyalty
            /\ points_history' = r.history
            /\ last' = [op |-> "accrue_points", user_id |-> user_id,
                        order_total |-> order_total, order_id |-> 1, ret |-> r.ret]
            /\ UNCHANGED <<txnVars, orderVars, sessionVars>>

NextStamps ==
    \/ IncrementStampsCall
    \/ UseFreeDrinkCall
    \/ StampsAccrueCall

SpecStamps == InitLedger /\ [][NextStamps]_vars

(***************************************************************************)
(* Claims about the loyalty ledger.                                        *)
(***************************************************************************)
OtherUsersUnchanged(user_id) ==
    \A v \in Users \ {user_id} :
        /\ (v \in DOMAIN loyalty') = (v \in DOMAIN loyalty)
        /\ v \in DOMAIN loyalty => loyalty'[v] = loyalty[v]

AccrueStep ==
    LET u == last'.user_id
        total == last'.order_total
        earned == (total \div 100) * 5
    IN  /\ last'.ret = earned
        /\ earned = 0 => loyalty' = loyalty /\ points_history' = points_history
        /\ earned > 0 =>
              /\ u \in DOMAIN loyalty'
              /\ loyalty'[u].points = PointsOf(loyalty, u) + earned
              /\ loyalty'[u].total_orders =
                     (IF u \in DOMAIN loyalty THEN loyalty[u].total_orders ELSE 0) + 1
              /\ loyalty'[u].total_spent =
                     (IF u \in DOMAIN loyalty THEN loyalty[u].total_spent ELSE 0) + total
              /\ loyalty'[u].stamps = StampsOf(loyalty, u)
              /\ OtherUsersUnchanged(u)
              /\ points_history' = Append(points_history,
                     [user_id |-> u, amount |-> earned, operation |-> "accrual",
                      order_id |-> last'.order_id])

\* C3: accrue(user, orderTotal, orderId) returns floor(orderTotal/100)*5.  When
\* that is 0 the loyalty table (the existence of the row included) and the
\* history are unchanged; when it is positive the balance grows by exactly that
\* value, the lifetime order count by 1, the lifetime spend by orderTotal, and
\* exactly one 'accrual' history row with that amount and the order id is appended.
C3_Accrual == [][last'.op = "accrue_points" => AccrueStep]_vars

\* C3 witness: an accrual of a positive amount for a user who had a row before,
\* after an accrual of 0 for a total below 100 left the tables alone.
C3_Witness ==
    /\ last.op = "accrue_points"
    /\ last.order_total = 250
    /\ last.ret > 0
    /\ Len(points_history) >= 2
    /\ loyalty[last.user_id].total_orders = 2

\* C4: calculateMaxRedeemable(total, balance) = min(balance, floor(total*30/100))
\* for all total >= 0 and balance >= 0: never above the balance, never above 30%
\* of the total, and 0 when either argument is 0.
C4_MaxRedeem ==
    last.op = "calculate_max_redeem" =>
        LET total == last.order_total
            balance == last.user_points
            cap == (total * 30) \div 100
        IN  /\ last.ret = (IF balance <= cap THEN balance ELSE cap)
            /\ last.ret <= balance
            /\ last.ret * 100 <= total * 30
            /\ last.ret >= 0
            /\ (total = 0 \/ balance = 0) => last.ret = 0

\* C4 witness: a call where the 30% cap, not the balance, decides the result.
C4_Witness ==
    /\ last.op = "calculate_max_redeem"
    /\ last.order_total = 10
    /\ last.user_points = 8
    /\ last.ret = 3

RedeemStep ==
    LET u == last'.user_id
        amount == last'.amount
        fails == \/ amount <= 0
                 \/ u \notin DOMAIN loyalty
                 \/ PointsOf(loyalty, u) < amount
    IN  /\ fails => /\ last'.ret = FALSE
                    /\ loyalty' = loyalty
                    /\ points_history' = points_history
        /\ ~fails => /\ last'.ret = TRUE
                     /\ loyalty' = [loyalty EXCEPT ![u].points = @ - amount]
                     /\ loyalty'[u].points >= 0
                     /\ points_history' = Append(points_history,
                            [user_id |-> u, amount |-> -amount,
                             operation |-> "redemption", order_id |-> last'.order_id])

\* C5: redeem(user, amount, orderId) returns false and changes neither the
\* balance nor the history when amount <= 0, when the user has no account, or
\* when balance < amount; otherwise it returns true, lowers the balance by
\* exactly amount and appends one 'redemption' row of -amount for orderId.
C5_Redeem == [][last'.op = "redeem_points" => RedeemStep]_vars

\* C5 witness: a successful redemption that leaves a positive balance.
C5_Witness ==
    /\ last.op = "redeem_points"
    /\ last.ret = TRUE
    /\ last.amount = 5
    /\ loyalty[last.user_id].points = 5

RefundAfterRedeemStep ==
    LET u == last.user_id
    IN  /\ PointsOf(loyalty', u) = last.points_before
        /\ last'.ret = last.amount
        /\ points_history' = Append(points_history,
               [user_id |-> u, amount |-> last.amount,
                operation |-> "refund", order_id |-> last.order_id])

RefundWithoutRedemptionStep ==
    /\ last'.ret = 0
    /\ loyalty' = loyalty
    /\ points_history' = points_history

\* C6: a successful redeem(user, amt, orderId) followed by one
\* refund(user, orderId) brings the balance back to its value before the redeem,
\* the refund returns amt and appends one 'refund' row of +amt for orderId; a
\* refund for a (user, orderId) pair with no redemption row, also when the user
\* has a redemption for another order, returns 0 and changes nothing.
C6_RedeemRefundRoundTrip ==
    [][/\ (/\ last.op = "redeem_points"
           /\ last.ret = TRUE
           /\ last'.op = "refund_points"
           /\ last'.user_id = last.user_id
           /\ last'.order_id = last.order_id) => RefundAfterRedeemStep
       /\ (/\ last'.op = "refund_points"
           /\ \A i \in 1..Len(points_history) :
                 ~(/\ points_history[i].user_id = last'.user_id
                   /\ points_history[i].order_id = last'.order_id
                   /\ points_history[i].operation = "redemption"))
          => RefundWithoutRedemptionStep]_vars

\* C6 witness: the refund that directly follows the redemption of the same order.
C6_Witness ==
    /\ last.op = "refund_points"
    /\ last.ret = 5
    /\ Len(points_history) = 3
    /\ points_history[2].operation = "redemption"
    /\ points_history[3].operation = "refund"
    /\ points_history[2].order_id = points_history[3].order_id
    /\ points_history[2].user_id = points_history[3].user_id

IncrementStampStep ==
    LET u == last'.user_id
        new == StampsOf(loyalty, u) + 1
    IN  /\ u \in DOMAIN loyalty'
        /\ loyalty'[u].stamps = new
        /\ last'.new_stamps = new
        /\ last'.earned_free_drink = (new >= 6)
        /\ loyalty'[u].points = PointsOf(loyalty, u)
        /\ OtherUsersUnchanged(u)

UseFreeDrinkStep ==
    LET u == last'.user_id
        enough == u \in DOMAIN loyalty /\ StampsOf(loyalty, u) >= 6
    IN  /\ last'.ret = enough
        /\ enough => /\ loyalty'[u].stamps = 0
                     /\ loyalty'[u].points = loyalty[u].points
                     /\ OtherUsersUnchanged(u)
        /\ ~enough => loyalty' = loyalty

\* C7: incrementStamp(user) raises the stamp count by exactly 1 (from 0 for a
\* user without an account), returns the new count and earnedFreeDrink =
\* (new count >= 6) and never resets the count.  useFreeDrink(user) succeeds iff
\* the count is >= 6, then sets the stamps to 0 and leaves the points alone;
\* otherwise it fails and leaves the stamps unchanged.
C7_Stamps ==
    [][/\ last'.op = "increment_stamps" => IncrementStampStep
       /\ last'.op = "use_free_drink" => UseFreeDrinkStep]_vars

\* C7 witness: a free drink used by a user who holds points, after the count
\* went past the threshold.
C7_Witness ==
    /\ last.op = "use_free_drink"
    /\ last.ret = TRUE
    /\ loyalty[last.user_id].stamps = 0
    /\ loyalty[last.user_id].points > 0

\* The stamp count reached by a seventh increment: the flag stays true past 6.
C7_SeventhStamp ==
    /\ last.op = "increment_stamps"
    /\ last.new_stamps = 7
    /\ last.earned_free_drink = TRUE

(***************************************************************************)
(* The order store (bot/database.py).  The id of a row is its position:    *)
(* ids are AUTOINCREMENT and no row is ever deleted.                       *)
(***************************************************************************)
PENDING == "pending"
CONFIRMED == "confirmed"
PREPARING == "preparing"
READY == "ready"
COMPLETED == "completed"
CANCELLED == "cancelled"
OrderStatus == {PENDING, CONFIRMED, PREPARING, READY, COMPLETED, CANCELLED}

RECURSIVE SumPriceQuantity(_)
\* sum(item.price * item.quantity for item in items)
SumPriceQuantity(items) ==
    IF items = <<>> THEN 0
    ELSE Head(items).price * Head(items).quantity + SumPriceQuantity(Tail(items))

create_order_total_ignores_quantity(O, user_id, items, pickup_time) ==
    [order_id |-> Len(O) + 1,
     orders |-> Append(O, [user_id |-> user_id, items |-> items,
                           total |-> SumPriceQuantity([i \in DOMAIN items |->
                                         [items[i] EXCEPT !.quantity = 1]]),
                           pickup_time |-> pickup_time, status |-> CONFIRMED])]

create_order_returns_first_id(O, user_id, items, pickup_time) ==
    [order_id |-> 1,
     orders |-> Append(O, [user_id |-> user_id, items |-> items,
                           total |-> SumPriceQuantity(items),
                           pickup_time |-> pickup_time, status |-> CONFIRMED])]

create_order(O, user_id, items, pickup_time) ==
    [order_id |-> Len(O) + 1,
     orders |-> Append(O, [user_id |-> user_id, items |-> items,
                           total |-> SumPriceQuantity(items),
                           pickup_time |-> pickup_time, status |-> CONFIRMED])]

\* the row of an order, as a sequence of at most one element (None: empty)
get_order(O, order_id) ==
    IF order_id \in DOMAIN O THEN <<O[order_id]>> ELSE <<>>

\* ids of the orders that are neither COMPLETED nor CANCELLED
get_active_orders(O) ==
    {id \in DOMAIN O : O[id].status \notin {COMPLETED, CANCELLED}}

\* ids of the orders of a user (at most HISTORY_PAGE_SIZE orders exist here)
get_user_orders(O, user_id) ==
    {id \in DOMAIN O : O[id].user_id = user_id}

update_order_status_resets_total(O, order_id, status) ==
    IF order_id \in DOMAIN O
    THEN [O EXCEPT ![order_id].status = status, ![order_id].total = 0]
    ELSE O

\* UPDATE orders SET status = ? WHERE id = ?
update_order_status(O, order_id, status) ==
    IF order_id \in DOMAIN O THEN [O EXCEPT ![order_id].status = status] ELSE O

cancel_order_by_client_any_status(O, order_id, user_id) ==
    IF order_id \notin DOMAIN O
    THEN [success |-> FALSE, message |-> "not_found", orders |-> O]
    ELSE IF O[order_id].user_id # user_id
    THEN [success |-> FALSE, message |-> "not_found", orders |-> O]
    ELSE [success |-> TRUE, message |-> "cancelled",
          orders |-> [O EXCEPT ![order_id].status = CANCELLED]]

cancel_order_by_client_no_owner_check(O, order_id, user_id) ==
    IF order_id \notin DOMAIN O
    THEN [success |-> FALSE, message |-> "not_found", orders |-> O]
    ELSE IF O[order_id].status # CONFIRMED
    THEN [success |-> FALSE, message |-> "in_work", orders |-> O]
    ELSE [success |-> TRUE, message |-> "cancelled",
          orders |-> [O EXCEPT ![order_id].status = CANCELLED]]

\* One transaction (BEGIN IMMEDIATE): the checks and the write are atomic.
cancel_order_by_client(O, order_id, user_id) ==
    IF order_id \notin DOMAIN O
    THEN [success |-> FALSE, message |-> "not_found", orders |-> O]
    ELSE IF O[order_id].user_id # user_id
    THEN [success |-> FALSE, message |-> "not_found", orders |-> O]
    ELSE IF O[order_id].status # CONFIRMED
    THEN [success |-> FALSE, message |-> "in_work", orders |-> O]
    ELSE [success |-> TRUE, message |-> "cancelled",
          orders |-> [O EXCEPT ![order_id].status = CANCELLED]]

(***************************************************************************)
(* Inline keyboards of the barista panel and of the client's order history *)
(* (bot/keyboards.py).  A keyboard is the callback data of its buttons.    *)
(***************************************************************************)
barista_orders_keyboard(order_ids) ==
    [kind |-> "barista_list", order_ids |-> order_ids]

\* the single status button offered for an order, "none" when there is none
NextStatusButton(order) ==
    IF order.status = CONFIRMED THEN PREPARING
    ELSE IF order.status = PREPARING THEN READY
    ELSE IF order.status = READY THEN COMPLETED
    ELSE "none"

barista_order_detail_keyboard(order_id, order) ==
    [kind |-> "barista_detail", order_id |-> order_id, status |-> NextStatusButton(order)]

history_keyboard(order_ids) ==
    [kind |-> "history", order_ids |-> order_ids]

order_detail_keyboard(order_id, order, user_id) ==
    [kind |-> "order_detail", order_id |-> order_id,
     cancel |-> (order.status = CONFIRMED /\ order.user_id = user_id)]

\* a message whose text was edited without a reply markup
NoKeyboard == [kind |-> "none"]

(***************************************************************************)
(* Messages.  message.answer sends a new message, msg.edit_text replaces   *)
(* the keyboard of the message the callback came from; the keyboards of    *)
(* older messages stay in the chat and can still be pressed.               *)
(***************************************************************************)
FreeIds(M, ids) == ids \ DOMAIN M

NewMsgId(M, ids) == CHOOSE i \in FreeIds(M, ids) : \A j \in FreeIds(M, ids) : i <= j

\* dict.update: the keys of upd are set, the other keys of d are kept
UpdateData(d, upd) == upd @@ d

\* dict.get(key, default)
Get(d, key, default) == IF key \in DOMAIN d THEN d[key] ELSE default

(***************************************************************************)
(* The barista panel (bot/handlers/barista.py), used by a configured       *)
(* barista.                                                                *)
(***************************************************************************)
\* settings.barista_id_list: the configured baristas
barista_id_list == {7, 8}

is_barista_anyone(user_id) == TRUE

\* settings.is_barista(user_id), the first check of every handler of the panel
is_barista(user_id) == user_id \in barista_id_list

\* the barista whose chat holds the panel
PanelBarista == CHOOSE b \in barista_id_list : TRUE

BaristaMsgIds == {1}

cmd_barista ==
    /\ FreeIds(views, BaristaMsgIds) # {}
    /\ views' = views @@ (NewMsgId(views, BaristaMsgIds) :>
                              barista_orders_keyboard(get_active_orders(orders)))
    /\ last' = [op |-> "cmd_barista"]
    /\ UNCHANGED <<ledgerVars, orders, menu_available, sessionVars>>

refresh_orders ==
    \E m \in DOMAIN views :
        /\ views[m].kind = "barista_list"
        /\ views' = [views EXCEPT ![m] = barista_orders_keyboard(get_active_orders(orders))]
        /\ last' = [op |-> "refresh_orders"]
        /\ UNCHANGED <<ledgerVars, orders, menu_available, sessionVars>>

back_to_list ==
    \E m \in DOMAIN views :
        /\ views[m].kind = "barista_detail"
        /\ views' = [views EXCEPT ![m] = barista_orders_keyboard(get_active_orders(orders))]
        /\ last' = [op |-> "back_to_list"]
        /\ UNCHANGED <<ledgerVars, orders, menu_available, sessionVars>>

show_order_detail ==
    \E m \in DOMAIN views :
        /\ views[m].kind = "barista_list"
        /\ \E order_id \in views[m].order_ids :
              LET order == get_order(orders, order_id)
              IN  /\ views' = IF order = <<>> THEN views
                              ELSE [views EXCEPT ![m] =
                                       barista_order_detail_keyboard(order_id, order[1])]
                  /\ last' = [op |-> "show_order_detail", order_id |-> order_id]
        /\ UNCHANGED <<ledgerVars, orders, menu_available, sessionVars>>

notify_owner_every_status(new_status, send_ok) ==
    [sent |-> TRUE, delivered |-> send_ok, raised |-> FALSE]

\* if new_status == OrderStatus.READY: bot.send_message(order.user_id, ...)
\* in try/except Exception; send_ok says whether the message can be sent
notify_owner(new_status, send_ok) ==
    IF new_status = READY
    THEN [sent |-> TRUE, delivered |-> send_ok, raised |-> FALSE]
    ELSE [sent |-> FALSE, delivered |-> FALSE, raised |-> FALSE]

\* a callback query barista:status:<order_id>:<new_status> of a user, from
\* message m.  A caller who is not a barista is answered "no access"; for a
\* barista the handler reads the order for its log entry, writes the status
\* as given, notifies the owner of a READY order and draws the detail
\* keyboard again.
change_status_callback(user_id, m, order_id, new_status, send_ok) ==
    LET old_order == get_order(orders, order_id)
        updated == update_order_status(orders, order_id, new_status)
        order == get_order(updated, order_id)
        notice == IF order = <<>>
                  THEN [sent |-> FALSE, delivered |-> FALSE, raised |-> FALSE]
                  ELSE notify_owner(new_status, send_ok)
    IN  /\ IF ~is_barista(user_id)
           THEN /\ send_ok
                /\ last' = [op |-> "change_status", user_id |-> user_id,
                            answer |-> "no_access", order_id |-> order_id,
                            new_status |-> new_status,
                            old_status |-> IF old_order = <<>> THEN "unknown"
                                           ELSE old_order[1].status,
                            notified |-> FALSE, delivered |-> FALSE,
                            raised |-> FALSE]
                /\ UNCHANGED <<orders, views>>
           ELSE /\ send_ok \/ notice.sent
                /\ orders' = updated
                /\ views' = IF order = <<>> \/ notice.raised THEN views
                            ELSE [views EXCEPT ![m] =
                                     barista_order_detail_keyboard(order_id, order[1])]
                /\ last' = [op |-> "change_status", user_id |-> user_id,
                            answer |-> IF order = <<>> THEN "not_found" ELSE "status",
                            order_id |-> order_id,
                            new_status |-> new_status,
                            old_status |-> IF old_order = <<>> THEN "unknown"
                                           ELSE old_order[1].status,
                            notified |-> notice.sent,
                            delivered |-> notice.delivered,
                            raised |-> notice.raised]
        /\ UNCHANGED <<ledgerVars, menu_available, sessionVars>>

\* a status button of an order detail keyboard of the panel
change_status ==
    \E m \in DOMAIN views, send_ok \in BOOLEAN :
        /\ views[m].kind = "barista_detail"
        /\ views[m].status # "none"
        /\ change_status_callback(PanelBarista, m, views[m].order_id,
                                  views[m].status, send_ok)

(***************************************************************************)
(* The client's order history and cancellation                             *)
(* (bot/handlers/client.py).  These handlers have no state filter.         *)
(***************************************************************************)
ClientMsgIds == {1, 2, 3}

\* /history: a user without orders gets a text without a keyboard
cmd_history(user_id) ==
    LET own == get_user_orders(orders, user_id)
    IN  /\ FreeIds(msgs[user_id], ClientMsgIds) # {}
        /\ IF own # {}
           THEN /\ data' = [data EXCEPT ![user_id] = UpdateData(@, [history_page |-> 0])]
                /\ msgs' = [msgs EXCEPT ![user_id] =
                               @ @@ (NewMsgId(@, ClientMsgIds) :> history_keyboard(own))]
           ELSE /\ msgs' = [msgs EXCEPT ![user_id] =
                               @ @@ (NewMsgId(@, ClientMsgIds) :> NoKeyboard)]
                /\ UNCHANGED data
        /\ last' = [op |-> "cmd_history", user_id |-> user_id]
        /\ UNCHANGED <<ledgerVars, orderVars, state>>

\* a callback query history:view:<order_id> of a user, from message m.  The
\* handler answers "Заказ не найден" for an unknown id and "Нет доступа к
\* заказу" for the order of another user.
history_view_order_callback(user_id, m, order_id) ==
    LET order == get_order(orders, order_id)
        answer == IF order = <<>> THEN "not_found"
                  ELSE IF order[1].user_id # user_id THEN "no_access"
                  ELSE "shown"
    IN  /\ msgs' = IF answer = "shown"
                   THEN [msgs EXCEPT ![user_id][m] =
                            order_detail_keyboard(order_id, order[1], user_id)]
                   ELSE msgs
        /\ last' = [op |-> "history_view_order", user_id |-> user_id,
                    order_id |-> order_id, shown |-> (answer = "shown"),
                    answer |-> answer]
        /\ UNCHANGED <<ledgerVars, orderVars, state, data>>

\* a button of the history keyboard
history_view_order(user_id) ==
    \E m \in DOMAIN msgs[user_id] :
        /\ msgs[user_id][m].kind = "history"
        /\ \E order_id \in msgs[user_id][m].order_ids :
              history_view_order_callback(user_id, m, order_id)

history_back(user_id) ==
    \E m \in DOMAIN msgs[user_id] :
        /\ msgs[user_id][m].kind = "order_detail"
        /\ msgs' = [msgs EXCEPT ![user_id][m] =
                       history_keyboard(get_user_orders(orders, user_id))]
        /\ last' = [op |-> "history_back", user_id |-> user_id]
        /\ UNCHANGED <<ledgerVars, orderVars, state, data>>

\* A callback query cancel:<order_id> of a user, from message m:
\* cancel_order_by_client, then, on success only, refund_points and the
\* message loses its keyboard.
\* Each of the two calls is a transaction of its own and re-raises a
\* persistence failure; the handler catches nothing, so a failure of
\* refund_points ends it after the cancellation was committed.  `fault` is
\* the call that raised.
cancel_order_callback(user_id, m, order_id) ==
    LET c == cancel_order_by_client(orders, order_id, user_id)
    IN  /\ \/ /\ orders' = c.orders
               /\ IF c.success
                  THEN \E r \in refund_points(loyalty, points_history, user_id, order_id) :
                          /\ loyalty' = r.loyalty
                          /\ points_history' = r.history
                          /\ msgs' = [msgs EXCEPT ![user_id][m] = NoKeyboard]
                          /\ last' = [op |-> "cancel_order", user_id |-> user_id,
                                      order_id |-> order_id, success |-> TRUE,
                                      message |-> c.message, refunded_points |-> r.ret,
                                      fault |-> "none"]
                  ELSE /\ UNCHANGED <<loyalty, points_history, msgs>>
                       /\ last' = [op |-> "cancel_order", user_id |-> user_id,
                                   order_id |-> order_id, success |-> FALSE,
                                   message |-> c.message, refunded_points |-> 0,
                                   fault |-> "none"]
           \/ /\ UNCHANGED <<orders, loyalty, points_history, msgs>>
              /\ last' = [op |-> "cancel_order", user_id |-> user_id,
                          order_id |-> order_id, success |-> FALSE,
                          message |-> "raised", refunded_points |-> 0,
                          fault |-> "cancel_order_by_client"]
           \/ /\ c.success
              /\ orders' = c.orders
              /\ UNCHANGED <<loyalty, points_history, msgs>>
              /\ last' = [op |-> "cancel_order", user_id |-> user_id,
                          order_id |-> order_id, success |-> TRUE,
                          message |-> "raised", refunded_points |-> 0,
                          fault |-> "refund_points"]
        /\ UNCHANGED <<txnVars, views, menu_available, state, data>>

\* the cancel button of an order detail keyboard
cancel_order(user_id) ==
    \E m \in DOMAIN msgs[user_id] :
        /\ msgs[user_id][m].kind = "order_detail"
        /\ msgs[user_id][m].cancel
        /\ cancel_order_callback(user_id, m, msgs[user_id][m].order_id)

(***************************************************************************)
(* SpecOrders: orders are created and cancelled directly on the order      *)
(* store, as the database tests do; one client browses the order history   *)
(* and cancels from it while the barista works through the panel.          *)
(***************************************************************************)
MaxOrders == 2

\* the lines of the orders created here
SampleItems ==
    <<[menu_item_id |-> 3, price |-> 260, quantity |-> 2],
      [menu_item_id |-> 1, price |-> 120, quantity |-> 1]>>

CreateOrderCall ==
    \E user_id \in Users :
        LET r == create_order(orders, user_id, SampleItems, "15")
        IN  /\ Len(orders) < MaxOrders
            /\ orders' = r.orders
            /\ last' = [op |-> "create_order", user_id |-> user_id, order_id |-> r.order_id]
            /\ UNCHANGED <<ledgerVars, views, menu_available, sessionVars>>

\* any order id, known or not, and any user, owner or not
CancelOrderByClientCall ==
    \E order_id \in 1..(Len(orders) + 1), user_id \in Users :
        LET c == cancel_order_by_client(orders, order_id, user_id)
        IN  /\ orders' = c.orders
            /\ last' = [op |-> "cancel_order_by_client", user_id |-> user_id,
                        order_id |-> order_id, success |-> c.success, message |-> c.message]
            /\ UNCHANGED <<ledgerVars, views, menu_available, sessionVars>>

NextOrders ==
    \/ CreateOrderCall
    \/ CancelOrderByClientCall
    \/ cmd_barista
    \/ refresh_orders
    \/ back_to_list
    \/ show_order_detail
    \/ (change_status /\ last'.delivered = last'.notified)
    \/ (Cardinality(DOMAIN msgs[1]) < 1 /\ cmd_history(1))
    \/ history_view_order(1)
    \/ history_back(1)
    \/ (cancel_order(1) /\ last'.fault = "none")

SpecOrders == InitLedger /\ [][NextOrders]_vars

(***************************************************************************)
(* Claims about the order store and the status of orders.                  *)
(***************************************************************************)
CancelGuardStep ==
    LET order_id == last'.order_id
        user_id == last'.user_id
        ok == /\ order_id \in DOMAIN orders
              /\ orders[order_id].user_id = user_id
              /\ orders[order_id].status = CONFIRMED
    IN  /\ last'.success = ok
        /\ ok => orders' = [orders EXCEPT ![order_id].status = CANCELLED]
        /\ ~ok => orders' = orders

\* C8: cancelByClient(orderId, userId) succeeds exactly when the order exists,
\* its owner is userId and its status is CONFIRMED; on success the status
\* becomes CANCELLED and nothing else in the order table changes; in every
\* other combination (unknown id, other owner, any other status) it fails and
\* the order table is unchanged.
C8_CancelGuard ==
    [][last'.op \in {"cancel_order_by_client", "cancel_order"} => CancelGuardStep]_vars

\* C8 witness: a successful cancellation, next to an order of the same owner
\* that was already in preparation and stayed so.
C8_Witness ==
    /\ last.op = "cancel_order_by_client"
    /\ last.success
    /\ orders[last.order_id].status = CANCELLED
    /\ \E id \in DOMAIN orders : /\ orders[id].user_id = last.user_id
                                 /\ orders[id].status = PREPARING

\* The refusals of C8: another user's CONFIRMED order, and an unknown id.
C8_OtherOwnerRefused ==
    /\ last.op = "cancel_order_by_client"
    /\ ~last.success
    /\ last.order_id \in DOMAIN orders
    /\ orders[last.order_id].status = CONFIRMED
    /\ orders[last.order_id].user_id # last.user_id

C8_UnknownIdRefused ==
    /\ last.op = "cancel_order_by_client"
    /\ ~last.success
    /\ last.order_id \notin DOMAIN orders
    /\ orders # <<>>

LegalTransition(old, new, op) ==
    \/ old = CONFIRMED /\ new = PREPARING /\ op = "change_status"
    \/ old = PREPARING /\ new = READY /\ op = "change_status"
    \/ old = READY /\ new = COMPLETED /\ op = "change_status"
    \/ old = CONFIRMED /\ new = CANCELLED /\ op \in {"cancel_order_by_client", "cancel_order"}

\* C10: every order is created with status CONFIRMED, and every change of an
\* order's status is CONFIRMED->PREPARING, PREPARING->READY or
\* READY->COMPLETED by the staff status action, or CONFIRMED->CANCELLED by the
\* client's cancellation; no other change of status ever happens.
C10_StatusMachine ==
    [][/\ \A id \in DOMAIN orders' \ DOMAIN orders : orders'[id].status = CONFIRMED
       /\ \A id \in DOMAIN orders :
             orders'[id].status # orders[id].status
                => LegalTransition(orders[id].status, orders'[id].status, last'.op)]_vars

\* The part of C10 that holds: orders are created CONFIRMED, PENDING is never
\* used, and the client's cancellation only ever takes CONFIRMED to CANCELLED.
C10_CreatedConfirmed ==
    [][/\ \A id \in DOMAIN orders' \ DOMAIN orders : orders'[id].status = CONFIRMED
       /\ \A id \in DOMAIN orders' : orders'[id].status # PENDING
       /\ last'.op \in {"cancel_order_by_client", "cancel_order"}
             => \A id \in DOMAIN orders :
                   orders'[id].status # orders[id].status
                      => orders[id].status = CONFIRMED /\ orders'[id].status = CANCELLED]_vars

\* A cancelled order put back into preparation by the staff status action.
C10_CancelledReopened ==
    /\ last.op = "change_status"
    /\ last.old_status = CANCELLED
    /\ last.new_status = PREPARING
    /\ orders[last.order_id].status = PREPARING

(***************************************************************************)
(* The catalogue: tables menu_items, menu_item_sizes, modifiers and        *)
(* menu_item_modifiers (bot/database.py), filled as the test fixtures fill *)
(* them.  Item 1 has neither sizes nor modifiers on offer, item 2 has a    *)
(* modifier but no size on offer, item 3 has both, item 4 has sizes only,  *)
(* item 5 is hidden.  No handler changes a price.                          *)
(***************************************************************************)
None == "None"

\* table menu_items without its column available, which is menu_available
menu_items ==
    (1 :> [price |-> 120]) @@
    (2 :> [price |-> 150]) @@
    (3 :> [price |-> 220]) @@
    (4 :> [price |-> 200]) @@
    (5 :> [price |-> 280])

\* table menu_item_sizes: item -> size -> row; size L of item 2 is a row
\* that is not available
menu_item_sizes ==
    (1 :> <<>>) @@
    (2 :> [L |-> [price_diff |-> 80, available |-> FALSE]]) @@
    (3 :> [S |-> [price_diff |-> 0, available |-> TRUE],
           M |-> [price_diff |-> 40, available |-> TRUE]]) @@
    (4 :> [S |-> [price_diff |-> 0, available |-> TRUE],
           M |-> [price_diff |-> 40, available |-> TRUE]]) @@
    (5 :> <<>>)

\* table modifiers: modifier 2 is not available
modifiers ==
    (1 :> [price |-> 50, is_available |-> TRUE]) @@
    (2 :> [price |-> 50, is_available |-> FALSE]) @@
    (3 :> [price |-> 60, is_available |-> TRUE])

menu_item_modifiers == (1 :> {2}) @@ (2 :> {1, 2}) @@ (3 :> {1, 3}) @@ (4 :> {}) @@ (5 :> {})

\* ids of the available items, as the menu keyboard lists them
get_menu == {id \in DOMAIN menu_items : menu_available[id]}

\* the row of an item, as a sequence of at most one element
get_menu_item(item_id) ==
    IF item_id \in DOMAIN menu_items
    THEN <<[price |-> menu_items[item_id].price, available |-> menu_available[item_id]]>>
    ELSE <<>>

get_menu_item_sizes_all_rows(menu_item_id) ==
    IF menu_item_id \in DOMAIN menu_item_sizes
    THEN [s \in DOMAIN menu_item_sizes[menu_item_id] |->
             menu_item_sizes[menu_item_id][s].price_diff]
    ELSE <<>>

\* size -> price_diff of the rows of an item WHERE available = 1
get_menu_item_sizes(menu_item_id) ==
    IF menu_item_id \in DOMAIN menu_item_sizes
    THEN LET rows == menu_item_sizes[menu_item_id]
         IN  [s \in {x \in DOMAIN rows : rows[x].available} |-> rows[s].price_diff]
    ELSE <<>>

\* ids of the modifiers linked to an item WHERE is_available = 1
get_available_modifiers(menu_item_id) ==
    IF menu_item_id \in DOMAIN menu_item_modifiers
    THEN {id \in menu_item_modifiers[menu_item_id] : modifiers[id].is_available}
    ELSE {}

\* ids of the rows of modifiers WHERE id IN (modifier_ids)
get_modifiers_by_ids(modifier_ids) ==
    {modifier_ids[i] : i \in DOMAIN modifier_ids} \cap DOMAIN modifiers

RECURSIVE SumModifierPrices(_)
\* sum(m["price"] for m in mods_data)
SumModifierPrices(ids) ==
    IF ids = {} THEN 0
    ELSE LET id == CHOOSE x \in ids : TRUE
         IN  modifiers[id].price + SumModifierPrices(ids \ {id})

modifiers_price_counts_one(selected) ==
    IF selected = <<>> THEN 0
    ELSE LET ids == get_modifiers_by_ids(selected)
         IN  IF ids = {} THEN 0 ELSE modifiers[CHOOSE x \in ids : TRUE].price

\* modifiers_done: modifiers_price of the current selection
modifiers_price(selected) ==
    IF selected = <<>> THEN 0 ELSE SumModifierPrices(get_modifiers_by_ids(selected))

(***************************************************************************)
(* Python lists of integers.                                               *)
(***************************************************************************)
RemoveAt(s, i) == [k \in 1..(Len(s) - 1) |-> IF k < i THEN s[k] ELSE s[k + 1]]

RECURSIVE sorted(_)
sorted(s) ==
    IF s = <<>> THEN <<>>
    ELSE LET m == CHOOSE i \in DOMAIN s : \A j \in DOMAIN s : s[i] <= s[j]
         IN  <<s[m]>> \o sorted(RemoveAt(s, m))

\* list.remove(x): the first occurrence of x is removed
ListRemove(s, x) ==
    LET i == CHOOSE k \in DOMAIN s : s[k] = x /\ \A j \in 1..(k - 1) : s[j] # x
    IN  RemoveAt(s, i)

Contains(s, x) == \E i \in DOMAIN s : s[i] = x

MinOf(S) == CHOOSE i \in S : \A j \in S : i <= j

(***************************************************************************)
(* The cart: a list of dicts kept in the FSM data.  A line holds the keys  *)
(* its handler wrote; the display strings (name, size_name,                *)
(* modifier_names) are left out.                                           *)
(***************************************************************************)
\* add_to_cart: the line of an item without options
MatchesPlain(c, item_id) ==
    /\ c.menu_item_id = item_id
    /\ Get(c, "size", None) = None
    /\ Get(c, "modifier_ids", <<>>) = <<>>

\* select_size: the line of an item in a size, without modifiers
MatchesSized(c, menu_item_id, size) ==
    /\ c.menu_item_id = menu_item_id
    /\ Get(c, "size", None) = size
    /\ Get(c, "modifier_ids", <<>>) = <<>>

MatchesConfiguration_unsorted(c, menu_item_id, size, selected) ==
    /\ c.menu_item_id = menu_item_id
    /\ Get(c, "size", None) = size
    /\ Get(c, "modifier_ids", <<>>) = selected

\* modifiers_done: same item, same size, same modifiers in any order
MatchesConfiguration(c, menu_item_id, size, selected) ==
    /\ c.menu_item_id = menu_item_id
    /\ Get(c, "size", None) = size
    /\ sorted(Get(c, "modifier_ids", <<>>)) = sorted(selected)

\* for c in cart: if <match>: c["quantity"] += 1; break -- else cart.append(line)
AddLine(cart, matching, line) ==
    IF matching = {} THEN Append(cart, line)
    ELSE [cart EXCEPT ![MinOf(matching)].quantity = @ + 1]

RECURSIVE CartQuantity(_)
CartQuantity(cart) ==
    IF cart = <<>> THEN 0 ELSE Head(cart).quantity + CartQuantity(Tail(cart))

(***************************************************************************)
(* Inline keyboards of the menu flow (bot/keyboards.py).                   *)
(***************************************************************************)
menu_keyboard(cart) ==
    [kind |-> "menu", items |-> get_menu, cart_show |-> (cart # <<>>)]

size_keyboard(menu_item_id, sizes) ==
    [kind |-> "size", menu_item_id |-> menu_item_id, sizes |-> DOMAIN sizes]

modifiers_keyboard(menu_item_id, size, mods) ==
    [kind |-> "modifiers", menu_item_id |-> menu_item_id, size |-> size,
     modifier_ids |-> mods]

(***************************************************************************)
(* The menu flow of a client session (bot/handlers/client.py).  A handler  *)
(* runs when the session is in the state of its filter and a button with   *)
(* its callback data is pressed on any message of the chat.                *)
(***************************************************************************)
cmd_start_without_clear(user_id) ==
    /\ FreeIds(msgs[user_id], ClientMsgIds) # {}
    /\ state' = [state EXCEPT ![user_id] = "browsing_menu"]
    /\ data' = [data EXCEPT ![user_id] = UpdateData(@, [cart |-> <<>>])]
    /\ msgs' = [msgs EXCEPT ![user_id] =
                   @ @@ (NewMsgId(@, ClientMsgIds) :> menu_keyboard(<<>>))]
    /\ last' = [op |-> "cmd_start", user_id |-> user_id]
    /\ UNCHANGED <<ledgerVars, orderVars>>

\* /start
cmd_start(user_id) ==
    /\ FreeIds(msgs[user_id], ClientMsgIds) # {}
    /\ state' = [state EXCEPT ![user_id] = "browsing_menu"]
    /\ data' = [data EXCEPT ![user_id] = [cart |-> <<>>]]
    /\ msgs' = [msgs EXCEPT ![user_id] =
                   @ @@ (NewMsgId(@, ClientMsgIds) :> menu_keyboard(<<>>))]
    /\ last' = [op |-> "cmd_start", user_id |-> user_id]
    /\ UNCHANGED <<ledgerVars, orderVars>>

\* a callback query menu:<item_id> of a user in state browsing_menu, from
\* message m
add_to_cart_callback(user_id, m, item_id) ==
    /\ state[user_id] = "browsing_menu"
    /\ LET item == get_menu_item(item_id)
           sizes == get_menu_item_sizes(item_id)
           mods == get_available_modifiers(item_id)
           cart == Get(data[user_id], "cart", <<>>)
           matching == {i \in DOMAIN cart : MatchesPlain(cart[i], item_id)}
           new_cart == AddLine(cart, matching,
                               [menu_item_id |-> item_id, price |-> item[1].price,
                                quantity |-> 1])
       IN  IF item = <<>> \/ ~item[1].available
           THEN /\ last' = [op |-> "add_to_cart", user_id |-> user_id,
                            item_id |-> item_id, result |-> "unavailable"]
                /\ UNCHANGED sessionVars
           ELSE IF DOMAIN sizes # {}
           THEN /\ data' = [data EXCEPT ![user_id] =
                               UpdateData(@, [selecting_item_id |-> item_id])]
                /\ state' = [state EXCEPT ![user_id] = "selecting_size"]
                /\ msgs' = [msgs EXCEPT ![user_id][m] = size_keyboard(item_id, sizes)]
                /\ last' = [op |-> "add_to_cart", user_id |-> user_id,
                            item_id |-> item_id, result |-> "sizes"]
           ELSE IF mods # {}
           THEN /\ data' = [data EXCEPT ![user_id] =
                               UpdateData(@, [selecting_item_id |-> item_id,
                                              selecting_size |-> None,
                                              selecting_price |-> item[1].price,
                                              selected_modifiers |-> <<>>])]
                /\ state' = [state EXCEPT ![user_id] = "selecting_modifiers"]
                /\ msgs' = [msgs EXCEPT ![user_id][m] =
                               modifiers_keyboard(item_id, None, mods)]
                /\ last' = [op |-> "add_to_cart", user_id |-> user_id,
                            item_id |-> item_id, result |-> "modifiers"]
           ELSE /\ data' = [data EXCEPT ![user_id] = UpdateData(@, [cart |-> new_cart])]
                /\ msgs' = [msgs EXCEPT ![user_id][m] = menu_keyboard(new_cart)]
                /\ last' = [op |-> "add_to_cart", user_id |-> user_id,
                            item_id |-> item_id, result |-> "added",
                            size |-> None, modifier_ids |-> <<>>]
                /\ UNCHANGED state
    /\ UNCHANGED <<ledgerVars, orderVars>>

\* a menu:<id> button of a menu keyboard
add_to_cart(user_id) ==
    \E m \in DOMAIN msgs[user_id] :
        /\ msgs[user_id][m].kind = "menu"
        /\ \E item_id \in msgs[user_id][m].items :
              add_to_cart_callback(user_id, m, item_id)

\* the size:back button, state selecting_size
select_size_back(user_id) ==
    \E m \in DOMAIN msgs[user_id] :
        /\ state[user_id] = "selecting_size"
        /\ msgs[user_id][m].kind = "size"
        /\ state' = [state EXCEPT ![user_id] = "browsing_menu"]
        /\ data' = [data EXCEPT ![user_id] = UpdateData(@, [selecting_item_id |-> None])]
        /\ msgs' = [msgs EXCEPT ![user_id][m] =
                       menu_keyboard(Get(data[user_id], "cart", <<>>))]
        /\ last' = [op |-> "select_size", user_id |-> user_id, result |-> "back"]
        /\ UNCHANGED <<ledgerVars, orderVars>>

\* a size:<id>:<size> button, state selecting_size
select_size(user_id) ==
    \E m \in DOMAIN msgs[user_id] :
        /\ state[user_id] = "selecting_size"
        /\ msgs[user_id][m].kind = "size"
        /\ \E size \in msgs[user_id][m].sizes :
              LET menu_item_id == msgs[user_id][m].menu_item_id
                  sizes == get_menu_item_sizes(menu_item_id)
                  item == get_menu_item(menu_item_id)
                  final_price == item[1].price + sizes[size]
                  mods == get_available_modifiers(menu_item_id)
                  cart_data == Get(data[user_id], "cart", <<>>)
                  matching == {i \in DOMAIN cart_data :
                                  MatchesSized(cart_data[i], menu_item_id, size)}
                  new_cart == AddLine(cart_data, matching,
                                      [menu_item_id |-> menu_item_id, price |-> final_price,
                                       quantity |-> 1, size |-> size])
              IN  IF size \notin DOMAIN sizes \/ item = <<>>
                  THEN /\ last' = [op |-> "select_size", user_id |-> user_id,
                                   result |-> "unavailable"]
                       /\ UNCHANGED sessionVars
                  ELSE IF mods # {}
                  THEN /\ data' = [data EXCEPT ![user_id] =
                                      UpdateData(@, [selecting_item_id |-> menu_item_id,
                                                     selecting_size |-> size,
                                                     selecting_price |-> final_price,
                                                     selected_modifiers |-> <<>>])]
                       /\ state' = [state EXCEPT ![user_id] = "selecting_modifiers"]
                       /\ msgs' = [msgs EXCEPT ![user_id][m] =
                                      modifiers_keyboard(menu_item_id, size, mods)]
                       /\ last' = [op |-> "select_size", user_id |-> user_id,
                                   item_id |-> menu_item_id, size |-> size,
                                   result |-> "modifiers"]
                  ELSE /\ data' = [data EXCEPT ![user_id] =
                                      UpdateData(@, [cart |-> new_cart,
                                                     selecting_item_id |-> None])]
                       /\ state' = [state EXCEPT ![user_id] = "browsing_menu"]
                       /\ msgs' = [msgs EXCEPT ![user_id][m] = menu_keyboard(new_cart)]
                       /\ last' = [op |-> "select_size", user_id |-> user_id,
                                   item_id |-> menu_item_id, result |-> "added",
                                   size |-> size, modifier_ids |-> <<>>]
        /\ UNCHANGED <<ledgerVars, orderVars>>

toggled_always_appends(selected, modifier_id) == Append(selected, modifier_id)

\* selected.remove(modifier_id) if modifier_id in selected, else
\* selected.append(modifier_id)
toggled(selected, modifier_id) ==
    IF Contains(selected, modifier_id)
    THEN ListRemove(selected, modifier_id)
    ELSE Append(selected, modifier_id)

\* a mod:toggle:<id>:<size>:<modifier> button, state selecting_modifiers
toggle_modifier(user_id) ==
    \E m \in DOMAIN msgs[user_id] :
        /\ state[user_id] = "selecting_modifiers"
        /\ msgs[user_id][m].kind = "modifiers"
        /\ \E modifier_id \in msgs[user_id][m].modifier_ids :
              LET menu_item_id == msgs[user_id][m].menu_item_id
                  size == msgs[user_id][m].size
                  selected == Get(data[user_id], "selected_modifiers", <<>>)
                  item == get_menu_item(menu_item_id)
              IN  /\ data' = [data EXCEPT ![user_id] =
                                 UpdateData(@, [selected_modifiers |->
                                                    toggled(selected, modifier_id)])]
                  /\ msgs' = IF item = <<>> THEN msgs
                             ELSE [msgs EXCEPT ![user_id][m] =
                                      modifiers_keyboard(menu_item_id, size,
                                          get_available_modifiers(menu_item_id))]
                  /\ last' = [op |-> "toggle_modifier", user_id |-> user_id,
                              modifier_id |-> modifier_id]
        /\ UNCHANGED <<ledgerVars, orderVars, state>>

\* the mod:done:<id>:<size> button, state selecting_modifiers: the item and
\* the size are those of the button, the selection and the base price those
\* of the session
modifiers_done(user_id) ==
    \E m \in DOMAIN msgs[user_id] :
        /\ state[user_id] = "selecting_modifiers"
        /\ msgs[user_id][m].kind = "modifiers"
        /\ LET menu_item_id == msgs[user_id][m].menu_item_id
               size == msgs[user_id][m].size
               selected == Get(data[user_id], "selected_modifiers", <<>>)
               base_price == Get(data[user_id], "selecting_price", 0)
               item == get_menu_item(menu_item_id)
               final_price == base_price + modifiers_price(selected)
               cart == Get(data[user_id], "cart", <<>>)
               matching == {i \in DOMAIN cart :
                               MatchesConfiguration(cart[i], menu_item_id, size, selected)}
               new_cart == AddLine(cart, matching,
                                   [menu_item_id |-> menu_item_id, price |-> final_price,
                                    quantity |-> 1, size |-> size,
                                    modifier_ids |-> selected,
                                    modifiers_price |-> modifiers_price(selected)])
           IN  IF item = <<>>
               THEN /\ last' = [op |-> "modifiers_done", user_id |-> user_id,
                                result |-> "unavailable"]
                    /\ UNCHANGED sessionVars
               ELSE /\ data' = [data EXCEPT ![user_id] =
                                   UpdateData(@, [cart |-> new_cart,
                                                  selecting_item_id |-> None,
                                                  selecting_size |-> None,
                                                  selecting_price |-> None,
                                                  selected_modifiers |-> <<>>])]
                    /\ state' = [state EXCEPT ![user_id] = "browsing_menu"]
                    /\ msgs' = [msgs EXCEPT ![user_id][m] = menu_keyboard(new_cart)]
                    /\ last' = [op |-> "modifiers_done", user_id |-> user_id,
                                item_id |-> menu_item_id, result |-> "added",
                                size |-> size, modifier_ids |-> selected]
        /\ UNCHANGED <<ledgerVars, orderVars>>

modifiers_back_keeps_selection(user_id) ==
    \E m \in DOMAIN msgs[user_id] :
        /\ state[user_id] = "selecting_modifiers"
        /\ msgs[user_id][m].kind = "modifiers"
        /\ LET menu_item_id == msgs[user_id][m].menu_item_id
               size == Get(data[user_id], "selecting_size", None)
               sizes == get_menu_item_sizes(menu_item_id)
               cart == Get(data[user_id], "cart", <<>>)
           IN  IF DOMAIN sizes # {} /\ size # None
               THEN /\ state' = [state EXCEPT ![user_id] = "selecting_size"]
                    /\ data' = [data EXCEPT ![user_id] =
                                   UpdateData(@, [selecting_item_id |-> menu_item_id])]
                    /\ msgs' = [msgs EXCEPT ![user_id][m] =
                                   size_keyboard(menu_item_id, sizes)]
               ELSE /\ state' = [state EXCEPT ![user_id] = "browsing_menu"]
                    /\ data' = [data EXCEPT ![user_id] =
                                   UpdateData(@, [selecting_item_id |-> None,
                                                  selecting_size |-> None,
                                                  selecting_price |-> None])]
                    /\ msgs' = [msgs EXCEPT ![user_id][m] = menu_keyboard(cart)]
        /\ last' = [op |-> "modifiers_back", user_id |-> user_id,
                     item_id |-> msgs[user_id][m].menu_item_id]
        /\ UNCHANGED <<ledgerVars, orderVars>>

\* the mod:back:<id> button, state selecting_modifiers
modifiers_back(user_id) ==
    \E m \in DOMAIN msgs[user_id] :
        /\ state[user_id] = "selecting_modifiers"
        /\ msgs[user_id][m].kind = "modifiers"
        /\ LET menu_item_id == msgs[user_id][m].menu_item_id
               size == Get(data[user_id], "selecting_size", None)
               item == get_menu_item(menu_item_id)
               sizes == get_menu_item_sizes(menu_item_id)
               cart == Get(data[user_id], "cart", <<>>)
           IN  IF item = <<>>
               THEN /\ state' = [state EXCEPT ![user_id] = "browsing_menu"]
                    /\ msgs' = [msgs EXCEPT ![user_id][m] = menu_keyboard(cart)]
                    /\ UNCHANGED data
               ELSE IF DOMAIN sizes # {} /\ size # None
               THEN /\ state' = [state EXCEPT ![user_id] = "selecting_size"]
                    /\ data' = [data EXCEPT ![user_id] =
                                   UpdateData(@, [selecting_item_id |-> menu_item_id,
                                                  selected_modifiers |-> <<>>])]
                    /\ msgs' = [msgs EXCEPT ![user_id][m] =
                                   size_keyboard(menu_item_id, sizes)]
               ELSE /\ state' = [state EXCEPT ![user_id] = "browsing_menu"]
                    /\ data' = [data EXCEPT ![user_id] =
                                   UpdateData(@, [selecting_item_id |-> None,
                                                  selecting_size |-> None,
                                                  selecting_price |-> None,
                                                  selected_modifiers |-> <<>>])]
                    /\ msgs' = [msgs EXCEPT ![user_id][m] = menu_keyboard(cart)]
        /\ last' = [op |-> "modifiers_back", user_id |-> user_id,
                     item_id |-> msgs[user_id][m].menu_item_id]
        /\ UNCHANGED <<ledgerVars, orderVars>>

(***************************************************************************)
(* SpecCart: one client fills a cart through the menu flow in one message. *)
(* SpecCartStale: /start may be sent again, which leaves the keyboard of   *)
(* the earlier message in the chat, where it can still be pressed.         *)
(***************************************************************************)
MaxCartQty == 2        \* SpecCart: items in a cart
MaxStaleCartQty == 1   \* SpecCartStale: items in a cart

\* the step leaves at most n items in the cart of the user
CartWithin(user_id, n) == CartQuantity(Get(data'[user_id], "cart", <<>>)) <= n

NextCart ==
    \/ (msgs[1] = <<>> /\ cmd_start(1))
    \/ (add_to_cart(1) /\ CartWithin(1, MaxCartQty))
    \/ select_size_back(1)
    \/ (select_size(1) /\ CartWithin(1, MaxCartQty))
    \/ toggle_modifier(1)
    \/ (modifiers_done(1) /\ CartWithin(1, MaxCartQty))
    \/ modifiers_back(1)

SpecCart == InitLedger /\ [][NextCart]_vars

NextCartStale ==
    \/ (Cardinality(DOMAIN msgs[1]) < 2 /\ cmd_start(1))
    \/ (add_to_cart(1) /\ CartWithin(1, MaxStaleCartQty))
    \/ select_size_back(1)
    \/ (select_size(1) /\ CartWithin(1, MaxStaleCartQty))
    \/ toggle_modifier(1)
    \/ (modifiers_done(1) /\ CartWithin(1, MaxStaleCartQty))
    \/ modifiers_back(1)

SpecCartStale == InitLedger /\ [][NextCartStale]_vars

(***************************************************************************)
(* Claims about the cart.                                                  *)
(***************************************************************************)
\* the identity key of a cart line
LineKey(c) ==
    <<c.menu_item_id, Get(c, "size", None), sorted(Get(c, "modifier_ids", <<>>))>>

OneLinePerKey(cart) ==
    \A i, j \in DOMAIN cart : i # j => LineKey(cart[i]) # LineKey(cart[j])

AddedToCart ==
    /\ last'.op \in {"add_to_cart", "select_size", "modifiers_done"}
    /\ last'.result = "added"

\* what an add of the configuration (item, size, modifiers) does to the cart
CartIdentityStep ==
    LET cart == Get(data[last'.user_id], "cart", <<>>)
        after == Get(data'[last'.user_id], "cart", <<>>)
        key == <<last'.item_id, last'.size, sorted(last'.modifier_ids)>>
        same == {i \in DOMAIN cart : LineKey(cart[i]) = key}
    IN  IF same # {}
        THEN /\ Len(after) = Len(cart)
             /\ \A i \in DOMAIN cart :
                   after[i] = IF i \in same THEN [cart[i] EXCEPT !.quantity = @ + 1]
                              ELSE cart[i]
        ELSE /\ Len(after) = Len(cart) + 1
             /\ SubSeq(after, 1, Len(cart)) = cart
             /\ LineKey(after[Len(after)]) = key
             /\ after[Len(after)].quantity = 1

\* C1: the cart holds at most one line per identity key (menu_item_id,
\* size-or-none, sorted modifier ids); an add through the menu flow of a
\* configuration the cart already holds leaves the number of lines unchanged
\* and raises that line's quantity by 1, and an add of a configuration that
\* differs in item, size or modifier set appends a new line with quantity 1
\* and leaves the other lines as they were.
C1_CartIdentity ==
    [][/\ \A u \in Users : OneLinePerKey(Get(data'[u], "cart", <<>>))
       /\ AddedToCart => CartIdentityStep]_vars

\* C1 witness: the second add of item 3 in size M with modifiers 1 and 3, this
\* time selected in the other order: one line, quantity 2.
C1_Witness ==
    /\ last.op = "modifiers_done"
    /\ last.result = "added"
    /\ last.modifier_ids = <<3, 1>>
    /\ LET cart == data[last.user_id].cart
       IN  /\ Len(cart) = 1
           /\ cart[1].menu_item_id = 3 /\ cart[1].size = "M"
           /\ cart[1].modifier_ids = <<1, 3>> /\ cart[1].quantity = 2

\* Distinct lines for the same item: another size, and another modifier set.
C1_DistinctSizes ==
    /\ last.op = "select_size" /\ last.result = "added"
    /\ LET cart == data[last.user_id].cart
       IN  /\ Len(cart) = 2
           /\ cart[1].menu_item_id = 4 /\ cart[1].size = "S" /\ cart[1].quantity = 1
           /\ cart[2].menu_item_id = 4 /\ cart[2].size = "M" /\ cart[2].quantity = 1

C1_DistinctModifiers ==
    /\ last.op = "modifiers_done" /\ last.result = "added"
    /\ LET cart == data[last.user_id].cart
       IN  /\ Len(cart) = 2
           /\ cart[1].menu_item_id = 3 /\ cart[1].size = "M" /\ cart[1].modifier_ids = <<>>
           /\ cart[2].menu_item_id = 3 /\ cart[2].size = "M" /\ cart[2].modifier_ids = <<1>>

RECURSIVE PriceOfSelection(_)
PriceOfSelection(selected) ==
    IF selected = <<>> THEN 0
    ELSE modifiers[Head(selected)].price + PriceOfSelection(Tail(selected))

SizeDelta(item_id, size) ==
    IF size = None THEN 0 ELSE menu_item_sizes[item_id][size].price_diff

\* the price of the line appended by the step, against the catalogue prices
\* of the item and size chosen in the session and of the selected modifiers
PriceStep ==
    LET d == data[last'.user_id]
        cart == Get(d, "cart", <<>>)
        after == Get(data'[last'.user_id], "cart", <<>>)
        line == after[Len(after)]
    IN  Len(after) = Len(cart) + 1 =>
           IF last'.op = "modifiers_done"
           THEN /\ line.price = menu_items[d.selecting_item_id].price
                                + SizeDelta(d.selecting_item_id, d.selecting_size)
                                + PriceOfSelection(d.selected_modifiers)
                /\ line.modifier_ids = d.selected_modifiers
           ELSE line.price = menu_items[last'.item_id].price
                             + SizeDelta(last'.item_id, last'.size)

C2_SelectionConsistent ==
    \A u \in Users :
        state[u] = "selecting_modifiers" =>
            data[u].selecting_price = menu_items[data[u].selecting_item_id].price
                + SizeDelta(data[u].selecting_item_id, data[u].selecting_size)

\* A line whose price is not that of the item and size it is labelled with:
\* done pressed on the modifiers keyboard of an earlier message.
C2_MislabelledLine ==
    \E u \in Users :
        \E i \in DOMAIN Get(data[u], "cart", <<>>) :
            LET c == data[u].cart[i]
            IN  /\ "modifier_ids" \in DOMAIN c
                /\ c.price # menu_items[c.menu_item_id].price
                             + (IF c.size \in DOMAIN get_menu_item_sizes(c.menu_item_id)
                                THEN menu_item_sizes[c.menu_item_id][c.size].price_diff ELSE 0)
                             + PriceOfSelection(c.modifier_ids)

(***************************************************************************)
(* Inline keyboards of the cart and of the checkout (bot/keyboards.py).    *)
(***************************************************************************)
\* the key of a cart line in callback data: item, size or "none", sorted
\* modifier ids
cart_item_key(item) ==
    <<item.menu_item_id,
      IF Get(item, "size", None) # None THEN item.size ELSE "none",
      sorted(Get(item, "modifier_ids", <<>>))>>

cart_keyboard(cart) ==
    [kind |-> "cart", keys |-> {cart_item_key(cart[i]) : i \in DOMAIN cart}]

pickup_time_keyboard == [kind |-> "time", minutes |-> {10, 15, 20, 30}]

confirm_keyboard == [kind |-> "confirm"]

bonus_keyboard(user_points, max_redeem, order_total) ==
    LET available_amounts == {a \in {50, 100, 150, 200} : a <= user_points /\ a <= max_redeem}
    IN  [kind |-> "bonus", amounts |-> available_amounts,
         max |-> (max_redeem > 0 /\ max_redeem \notin available_amounts)]

(***************************************************************************)
(* The cart view and the checkout of a client session                      *)
(* (bot/handlers/client.py).                                               *)
(***************************************************************************)
\* the cart:show button, state browsing_menu
show_cart(user_id) ==
    \E m \in DOMAIN msgs[user_id] :
        /\ state[user_id] = "browsing_menu"
        /\ msgs[user_id][m].kind = "menu"
        /\ msgs[user_id][m].cart_show
        /\ LET cart == Get(data[user_id], "cart", <<>>)
           IN  msgs' = IF cart = <<>> THEN msgs
                       ELSE [msgs EXCEPT ![user_id][m] = cart_keyboard(cart)]
        /\ last' = [op |-> "show_cart", user_id |-> user_id]
        /\ UNCHANGED <<ledgerVars, orderVars, state, data>>

\* the cart:back button, state browsing_menu
cart_back_to_menu(user_id) ==
    \E m \in DOMAIN msgs[user_id] :
        /\ state[user_id] = "browsing_menu"
        /\ msgs[user_id][m].kind = "cart"
        /\ msgs' = [msgs EXCEPT ![user_id][m] =
                       menu_keyboard(Get(data[user_id], "cart", <<>>))]
        /\ last' = [op |-> "cart_back_to_menu", user_id |-> user_id]
        /\ UNCHANGED <<ledgerVars, orderVars, state, data>>

checkout_without_guard(user_id) ==
    \E m \in DOMAIN msgs[user_id] :
        /\ state[user_id] = "browsing_menu"
        /\ msgs[user_id][m].kind = "cart"
        /\ state' = [state EXCEPT ![user_id] = "selecting_time"]
        /\ msgs' = [msgs EXCEPT ![user_id][m] = pickup_time_keyboard]
        /\ last' = [op |-> "checkout", user_id |-> user_id, result |-> "time"]
        /\ UNCHANGED <<ledgerVars, orderVars, data>>

\* the cart:checkout button, state browsing_menu
checkout(user_id) ==
    \E m \in DOMAIN msgs[user_id] :
        /\ state[user_id] = "browsing_menu"
        /\ msgs[user_id][m].kind = "cart"
        /\ LET cart == Get(data[user_id], "cart", <<>>)
           IN  IF cart = <<>>
               THEN /\ last' = [op |-> "checkout", user_id |-> user_id, result |-> "empty"]
                    /\ UNCHANGED <<state, msgs>>
               ELSE /\ state' = [state EXCEPT ![user_id] = "selecting_time"]
                    /\ msgs' = [msgs EXCEPT ![user_id][m] = pickup_time_keyboard]
                    /\ last' = [op |-> "checkout", user_id |-> user_id, result |-> "time"]
        /\ UNCHANGED <<ledgerVars, orderVars, data>>

\* the time:back button, state selecting_time
time_back(user_id) ==
    \E m \in DOMAIN msgs[user_id] :
        /\ state[user_id] = "selecting_time"
        /\ msgs[user_id][m].kind = "time"
        /\ state' = [state EXCEPT ![user_id] = "browsing_menu"]
        /\ msgs' = [msgs EXCEPT ![user_id][m] =
                       cart_keyboard(Get(data[user_id], "cart", <<>>))]
        /\ last' = [op |-> "time_back", user_id |-> user_id]
        /\ UNCHANGED <<ledgerVars, orderVars, data>>

select_time_never_asks(user_id) ==
    \E m \in DOMAIN msgs[user_id] :
        /\ state[user_id] = "selecting_time"
        /\ msgs[user_id][m].kind = "time"
        /\ \E minutes \in msgs[user_id][m].minutes :
              /\ data' = [data EXCEPT ![user_id] =
                             UpdateData(@, [pickup_time |-> minutes, bonus_used |-> 0])]
              /\ last' = [op |-> "select_time", user_id |-> user_id, minutes |-> minutes]
        /\ loyalty' = get_or_create_loyalty(loyalty, user_id).loyalty
        /\ state' = [state EXCEPT ![user_id] = "confirming"]
        /\ msgs' = [msgs EXCEPT ![user_id][m] = confirm_keyboard]
        /\ UNCHANGED <<points_history, txnVars, orderVars>>

\* a time:<minutes> button, state selecting_time: the bonus question is put
\* when the user holds points of which some can be redeemed on this cart,
\* otherwise the confirmation is shown with no bonus
select_time(user_id) ==
    \E m \in DOMAIN msgs[user_id] :
        /\ state[user_id] = "selecting_time"
        /\ msgs[user_id][m].kind = "time"
        /\ \E minutes \in msgs[user_id][m].minutes :
              LET loyalty_data == get_or_create_loyalty(loyalty, user_id)
                  user_points == loyalty_data.ret.points
                  cart == Get(data[user_id], "cart", <<>>)
                  order_total == SumPriceQuantity(cart)
                  max_redeem == calculate_max_redeem(order_total, user_points)
              IN  /\ loyalty' = loyalty_data.loyalty
                  /\ IF user_points > 0 /\ max_redeem > 0
                     THEN /\ data' = [data EXCEPT ![user_id] =
                                         UpdateData(@, [pickup_time |-> minutes])]
                          /\ state' = [state EXCEPT ![user_id] = "applying_bonus"]
                          /\ msgs' = [msgs EXCEPT ![user_id][m] =
                                         bonus_keyboard(user_points, max_redeem, order_total)]
                     ELSE /\ data' = [data EXCEPT ![user_id] =
                                         UpdateData(@, [pickup_time |-> minutes,
                                                        bonus_used |-> 0])]
                          /\ state' = [state EXCEPT ![user_id] = "confirming"]
                          /\ msgs' = [msgs EXCEPT ![user_id][m] = confirm_keyboard]
                  /\ last' = [op |-> "select_time", user_id |-> user_id,
                              minutes |-> minutes]
        /\ UNCHANGED <<points_history, txnVars, orderVars>>

bonus_skip_keeps_choice(user_id) ==
    \E m \in DOMAIN msgs[user_id] :
        /\ state[user_id] = "applying_bonus"
        /\ msgs[user_id][m].kind = "bonus"
        /\ state' = [state EXCEPT ![user_id] = "confirming"]
        /\ msgs' = [msgs EXCEPT ![user_id][m] = confirm_keyboard]
        /\ last' = [op |-> "bonus_skip", user_id |-> user_id,
                    before |-> Get(data[user_id], "bonus_used", 0)]
        /\ UNCHANGED <<ledgerVars, orderVars, data>>

\* the bonus:skip button, state applying_bonus; `before` is the bonus the
\* session data held when the button was pressed (0 when it held none)
bonus_skip(user_id) ==
    \E m \in DOMAIN msgs[user_id] :
        /\ state[user_id] = "applying_bonus"
        /\ msgs[user_id][m].kind = "bonus"
        /\ data' = [data EXCEPT ![user_id] = UpdateData(@, [bonus_used |-> 0])]
        /\ state' = [state EXCEPT ![user_id] = "confirming"]
        /\ msgs' = [msgs EXCEPT ![user_id][m] = confirm_keyboard]
        /\ last' = [op |-> "bonus_skip", user_id |-> user_id,
                    before |-> Get(data[user_id], "bonus_used", 0)]
        /\ UNCHANGED <<ledgerVars, orderVars>>

\* a bonus:use:<amount> button, state applying_bonus
bonus_use(user_id) ==
    \E m \in DOMAIN msgs[user_id] :
        /\ state[user_id] = "applying_bonus"
        /\ msgs[user_id][m].kind = "bonus"
        /\ \E amount \in msgs[user_id][m].amounts :
              /\ data' = [data EXCEPT ![user_id] = UpdateData(@, [bonus_used |-> amount])]
              /\ last' = [op |-> "bonus_use", user_id |-> user_id, amount |-> amount]
        /\ state' = [state EXCEPT ![user_id] = "confirming"]
        /\ msgs' = [msgs EXCEPT ![user_id][m] = confirm_keyboard]
        /\ UNCHANGED <<ledgerVars, orderVars>>

\* the bonus:max button, state applying_bonus: the maximum is computed again
\* from the cart and the balance of this moment
bonus_max(user_id) ==
    \E m \in DOMAIN msgs[user_id] :
        /\ state[user_id] = "applying_bonus"
        /\ msgs[user_id][m].kind = "bonus"
        /\ msgs[user_id][m].max
        /\ LET cart == Get(data[user_id], "cart", <<>>)
               order_total == SumPriceQuantity(cart)
               loyalty_data == get_or_create_loyalty(loyalty, user_id)
               max_redeem == calculate_max_redeem(order_total, loyalty_data.ret.points)
           IN  /\ loyalty' = loyalty_data.loyalty
               /\ data' = [data EXCEPT ![user_id] = UpdateData(@, [bonus_used |-> max_redeem])]
               /\ last' = [op |-> "bonus_max", user_id |-> user_id, amount |-> max_redeem]
        /\ state' = [state EXCEPT ![user_id] = "confirming"]
        /\ msgs' = [msgs EXCEPT ![user_id][m] = confirm_keyboard]
        /\ UNCHANGED <<points_history, txnVars, orderVars>>

\* the confirm:edit button, state confirming
confirm_edit(user_id) ==
    \E m \in DOMAIN msgs[user_id] :
        /\ state[user_id] = "confirming"
        /\ msgs[user_id][m].kind = "confirm"
        /\ state' = [state EXCEPT ![user_id] = "browsing_menu"]
        /\ msgs' = [msgs EXCEPT ![user_id][m] =
                       cart_keyboard(Get(data[user_id], "cart", <<>>))]
        /\ last' = [op |-> "confirm_edit", user_id |-> user_id]
        /\ UNCHANGED <<ledgerVars, orderVars, data>>

\* OrderItem(...) of a cart line
OrderItemOf(c) ==
    [menu_item_id |-> c.menu_item_id, price |-> c.price, quantity |-> c.quantity,
     comment |-> Get(c, "comment", None), size |-> Get(c, "size", None),
     modifier_ids |-> Get(c, "modifier_ids", <<>>),
     modifiers_price |-> Get(c, "modifiers_price", 0)]

accrual_total_discounted(order, bonus_used) == order.total - bonus_used

\* confirm_order: the sum the points are accrued on is the total of the order
accrual_total(order, bonus_used) == order.total

state_clear_to_browsing(user_id) ==
    /\ state' = [state EXCEPT ![user_id] = "browsing_menu"]
    /\ data' = [data EXCEPT ![user_id] = [cart |-> <<>>]]

\* await state.clear(): the session loses its state and its data
state_clear(user_id) ==
    /\ state' = [state EXCEPT ![user_id] = None]
    /\ data' = [data EXCEPT ![user_id] = <<>>]

send_to_barista_uncaught(barista_id, delivered) ==
    [barista_id |-> barista_id, success |-> delivered, raised |-> ~delivered]

\* send_to_barista: bot.send_message in try/except Exception; a failure is
\* logged and returned, not raised
send_to_barista(barista_id, delivered) ==
    [barista_id |-> barista_id, success |-> delivered, raised |-> FALSE]

\* _notify_baristas with the sends to `failing` failing: asyncio.gather
\* starts one send per barista and, with return_exceptions=False, raises
\* what a send raises
notify_baristas(failing) ==
    LET results == [b \in barista_id_list |-> send_to_barista(b, b \notin failing)]
    IN  [attempted |-> DOMAIN results,
         delivered |-> {b \in DOMAIN results : results[b].success},
         raised |-> \E b \in DOMAIN results : results[b].raised]

\* the confirm:yes button, state confirming: the order is inserted, the bonus
\* is redeemed (and dropped when the redemption fails), points are accrued,
\* a stamp is added, the baristas are notified with a text without a
\* keyboard and the session is cleared.  `failing` are the baristas the
\* message cannot be sent to.
confirm_order(user_id) ==
    \E m \in DOMAIN msgs[user_id], failing \in SUBSET barista_id_list :
        /\ state[user_id] = "confirming"
        /\ msgs[user_id][m].kind = "confirm"
        /\ LET cart_data == Get(data[user_id], "cart", <<>>)
               pickup_time == Get(data[user_id], "pickup_time", 15)
               bonus_used == Get(data[user_id], "bonus_used", 0)
               items == [i \in DOMAIN cart_data |-> OrderItemOf(cart_data[i])]
               created == create_order(orders, user_id, items, pickup_time)
               order == created.orders[created.order_id]
               redeemed == IF bonus_used > 0
                           THEN redeem_points(loyalty, points_history, user_id,
                                              bonus_used, created.order_id)
                           ELSE [ret |-> FALSE, loyalty |-> loyalty,
                                 history |-> points_history]
               bonus_applied == IF bonus_used > 0 /\ ~redeemed.ret THEN 0 ELSE bonus_used
               accrued == accrue_points(redeemed.loyalty, redeemed.history, user_id,
                                        accrual_total(order, bonus_applied),
                                        created.order_id)
               stamped == increment_stamps(accrued.loyalty, user_id)
               notified == notify_baristas(failing)
           IN  IF cart_data = <<>>
               THEN /\ failing = {}
                    /\ last' = [op |-> "confirm_order", user_id |-> user_id,
                                result |-> "empty", failed |-> failing]
                    /\ UNCHANGED <<ledgerVars, orders, menu_available, sessionVars>>
               ELSE /\ orders' = created.orders
                    /\ loyalty' = stamped.loyalty
                    /\ points_history' = accrued.history
                    /\ IF notified.raised
                       THEN /\ UNCHANGED sessionVars
                            /\ last' = [op |-> "confirm_order", user_id |-> user_id,
                                        result |-> "raised", order_id |-> created.order_id,
                                        failed |-> failing]
                       ELSE /\ state_clear(user_id)
                            /\ msgs' = [msgs EXCEPT ![user_id][m] = NoKeyboard]
                            /\ last' = [op |-> "confirm_order", user_id |-> user_id,
                                        result |-> "ordered", order_id |-> created.order_id,
                                        bonus_used |-> bonus_applied,
                                        points_earned |-> accrued.ret,
                                        new_stamps |-> stamped.new_stamps,
                                        free_drink |-> stamped.earned_free_drink,
                                        attempted |-> notified.attempted,
                                        delivered |-> notified.delivered,
                                        failed |-> failing]
        /\ UNCHANGED <<txnVars, views, menu_available>>

(***************************************************************************)
(* SpecCheckout: one client orders through the whole flow, from /start to  *)
(* the confirmation, at most twice.  The client is either new or a         *)
(* returning customer who has picked up an earlier order of six item 4 in  *)
(* size S (total 1200), which earned 60 points and a stamp.                *)
(***************************************************************************)
MaxCheckoutQty == 2    \* SpecCheckout: items in a cart

\* the menu buttons and the pickup times the client presses in SpecCheckout
CheckoutItems == {1, 4}
CheckoutMinutes == {15}

ReturningCustomer ==
    /\ orders = <<[user_id |-> 1,
                   items |-> <<OrderItemOf([menu_item_id |-> 4, price |-> 200,
                                            quantity |-> 6, size |-> "S"])>>,
                   total |-> 1200, pickup_time |-> 15, status |-> COMPLETED]>>
    /\ loyalty = (1 :> [points |-> 60, stamps |-> 1, total_orders |-> 1,
                        total_spent |-> 1200])
    /\ points_history = <<HistoryEntry(1, 60, "accrual", 1)>>

InitCheckout ==
    /\ \/ loyalty = <<>> /\ points_history = <<>> /\ orders = <<>>
       \/ ReturningCustomer
    /\ views = <<>>
    /\ menu_available = seeded_available
    /\ state = [u \in Users |-> None]
    /\ data = [u \in Users |-> <<>>]
    /\ msgs = [u \in Users |-> <<>>]
    /\ calls = <<>>
    /\ txn = NoTxn
    /\ last = [op |-> "none"]

NextCheckout ==
    \/ (state[1] = None /\ Cardinality(DOMAIN msgs[1]) < 2 /\ cmd_start(1))
    \/ (add_to_cart(1) /\ last'.item_id \in CheckoutItems /\ CartWithin(1, MaxCheckoutQty))
    \/ select_size_back(1)
    \/ (select_size(1) /\ CartWithin(1, MaxCheckoutQty))
    \/ show_cart(1)
    \/ cart_back_to_menu(1)
    \/ checkout(1)
    \/ time_back(1)
    \/ (select_time(1) /\ last'.minutes \in CheckoutMinutes)
    \/ bonus_skip(1)
    \/ bonus_use(1)
    \/ bonus_max(1)
    \/ confirm_edit(1)
    \/ (confirm_order(1) /\ last'.failed = {})

SpecCheckout == InitCheckout /\ [][NextCheckout]_vars

(***************************************************************************)
(* Claims about the confirmation of an order.                              *)
(***************************************************************************)
RECURSIVE CartTotal(_)
\* the sum of price * quantity over the lines of a cart
CartTotal(cart) ==
    IF cart = <<>> THEN 0
    ELSE cart[1].price * cart[1].quantity + CartTotal(Tail(cart))

ConfirmStep ==
    LET u == last'.user_id
        cart == Get(data[u], "cart", <<>>)
        b == Get(data[u], "bonus_used", 0)
        total == CartTotal(cart)
        balance == PointsOf(loyalty, u)
    IN  (cart # <<>> /\ 0 <= b /\ b <= balance) =>
           /\ Len(orders') = Len(orders) + 1
           /\ SubSeq(orders', 1, Len(orders)) = orders
           /\ orders'[Len(orders')].user_id = u
           /\ orders'[Len(orders')].total = total
           /\ PointsOf(loyalty', u) = balance - b + (total \div 100) * 5
           /\ StampsOf(loyalty', u) = StampsOf(loyalty, u) + 1

\* C9: when a session in state confirming with a non-empty cart and a chosen
\* bonus b, 0 <= b <= current balance, is confirmed, exactly one order is
\* stored, its total is the sum of price * quantity over the cart lines before
\* any discount, the user's balance becomes old balance - b +
\* floor(total / 100) * 5, the accrual being computed on the full total and
\* not on total - b, and the user's stamp count rises by exactly 1.
C9_Confirmation ==
    [][last'.op = "confirm_order" => ConfirmStep]_vars

\* C9 witness: the returning customer (60 points, 1 stamp) confirms two of
\* item 1 (240) with the maximum bonus 60: the order total is 240, the
\* balance 60 - 60 + 10 (and not + 5, the accrual on 180), the stamps 2.
C9_Witness ==
    /\ last.op = "confirm_order"
    /\ last.result = "ordered"
    /\ last.bonus_used = 60
    /\ Len(orders[last.order_id].items) = 1
    /\ orders[last.order_id].items[1].quantity = 2
    /\ orders[last.order_id].total = 240
    /\ loyalty[last.user_id].points = 10
    /\ loyalty[last.user_id].stamps = 2

\* A fixed amount: 50 of 60 points on an order of 200 leave 60 - 50 + 10.
C9_FixedAmount ==
    /\ last.op = "confirm_order"
    /\ last.result = "ordered"
    /\ last.bonus_used = 50
    /\ orders[last.order_id].total = 200
    /\ loyalty[last.user_id].points = 20

\* No bonus: a new customer's first order of 120 earns 5 points and a stamp.
C9_FirstOrder ==
    /\ last.op = "confirm_order"
    /\ last.result = "ordered"
    /\ last.bonus_used = 0
    /\ Len(orders) = 1
    /\ orders[1].total = 120
    /\ loyalty[last.user_id].points = 5
    /\ loyalty[last.user_id].stamps = 1

\* In SpecCheckout the bonus held by a confirming session never exceeds the
\* balance, and confirm is never pressed on an empty cart.
C9_BonusWithinBalance ==
    \A u \in Users :
        state[u] = "confirming" =>
            /\ Get(data[u], "cart", <<>>) # <<>>
            /\ 0 <= Get(data[u], "bonus_used", 0)
            /\ Get(data[u], "bonus_used", 0) <= PointsOf(loyalty, u)

(***************************************************************************)
(* The ledger at the level of its SQL statements (bot/loyalty.py).  Every   *)
(* call opens its own connection; BEGIN IMMEDIATE takes the write lock of   *)
(* the database file and waits while another connection holds it; the       *)
(* statements of a transaction work on the connection's uncommitted copy of *)
(* the tables, which COMMIT publishes and ROLLBACK drops; a statement       *)
(* outside a transaction reads the committed tables.                        *)
(*                                                                          *)
(* Each function is the sequence of its statements; "ARGS" is the check of  *)
(* the arguments made before the connection is opened.                      *)
(***************************************************************************)
accrue_points_program ==
    <<"ARGS", "BEGIN", "INSERT_OR_IGNORE", "UPDATE", "INSERT_HISTORY", "COMMIT">>

increment_stamps_program ==
    <<"BEGIN", "INSERT_OR_IGNORE", "SELECT", "UPDATE", "COMMIT">>

redeem_points_program_reads_first ==
    <<"ARGS", "SELECT", "BEGIN", "UPDATE", "INSERT_HISTORY", "COMMIT">>

redeem_points_program ==
    <<"ARGS", "BEGIN", "SELECT", "UPDATE", "INSERT_HISTORY", "COMMIT">>

refund_points_program ==
    <<"SELECT", "BEGIN", "UPDATE", "INSERT_HISTORY", "COMMIT">>

use_free_drink_program ==
    <<"BEGIN", "SELECT", "UPDATE", "COMMIT">>

\* get_or_create_loyalty opens no transaction for its SELECT; its INSERT is a
\* plain INSERT, which takes the write lock, and db.commit() follows
get_or_create_loyalty_program ==
    <<"SELECT_ACCOUNT", "INSERT", "COMMIT_INSERT">>

ProgramOf(op) ==
    CASE op = "accrue_points" -> accrue_points_program
      [] op = "increment_stamps" -> increment_stamps_program
      [] op = "redeem_points" -> redeem_points_program
      [] op = "refund_points" -> refund_points_program
      [] op = "use_free_drink" -> use_free_drink_program
      [] op = "get_or_create_loyalty" -> get_or_create_loyalty_program

Running(i) == i \in DOMAIN calls /\ calls[i].status = "running"

\* the statement call i executes next
Statement(i) == ProgramOf(calls[i].op)[calls[i].pc]

\* the tables as the connection of call i sees them
TablesSeenBy(i) ==
    IF txn.owner = i
    THEN [loyalty |-> txn.loyalty, history |-> txn.history]
    ELSE [loyalty |-> loyalty, history |-> points_history]

Advance(i) == [calls EXCEPT ![i].pc = @ + 1]
Return(i, value) == [calls EXCEPT ![i].status = "returned", ![i].ret = value]

\* db.rollback() on the connection of call i
Rollback(i) == IF txn.owner = i THEN NoTxn ELSE txn

(***************************************************************************)
(* The statements.                                                          *)
(***************************************************************************)
\* accrue_points: points_earned <= 0 returns 0; redeem_points: amount <= 0
\* returns False
CheckArgs(i) ==
    /\ Running(i)
    /\ Statement(i) = "ARGS"
    /\ LET c == calls[i]
       IN  calls' = CASE c.op = "accrue_points" /\ PointsEarned(c.arg) <= 0 -> Return(i, 0)
                      [] c.op = "redeem_points" /\ c.arg <= 0 -> Return(i, FALSE)
                      [] OTHER -> Advance(i)
    /\ UNCHANGED <<loyalty, points_history, txn, orderVars, sessionVars, last>>

\* BEGIN IMMEDIATE: waits for the write lock
Begin(i) ==
    /\ Running(i)
    /\ Statement(i) = "BEGIN"
    /\ txn.owner = 0
    /\ txn' = [owner |-> i, loyalty |-> loyalty, history |-> points_history]
    /\ calls' = Advance(i)
    /\ UNCHANGED <<loyalty, points_history, orderVars, sessionVars, last>>

\* INSERT OR IGNORE INTO loyalty (user_id) VALUES (?)
InsertOrIgnore(i) ==
    /\ Running(i)
    /\ Statement(i) = "INSERT_OR_IGNORE"
    /\ txn.owner = i
    /\ txn' = [txn EXCEPT !.loyalty = InsertOrIgnoreLoyalty(@, calls[i].user_id)]
    /\ calls' = Advance(i)
    /\ UNCHANGED <<loyalty, points_history, orderVars, sessionVars, last>>

\* the rows a SELECT of call i may fetch with fetchone(): a sequence of at
\* most one value per outcome
Fetched(i) ==
    LET c == calls[i]
        t == TablesSeenBy(i)
        account == IF c.user_id \in DOMAIN t.loyalty THEN <<t.loyalty[c.user_id]>> ELSE <<>>
    IN  CASE c.op = "redeem_points" -> {[k \in DOMAIN account |-> account[k].points]}
          [] c.op \in {"increment_stamps", "use_free_drink"} ->
                 {[k \in DOMAIN account |-> account[k].stamps]}
          [] c.op = "refund_points" ->
                 LET rows == RedemptionRows(t.history, c.user_id, c.order_id)
                 IN  IF rows = {} THEN {<<>>} ELSE {<<t.history[r].amount>> : r \in rows}

\* SELECT ... ; row = fetchone(), and the test the function makes on the row
Select(i) ==
    /\ Running(i)
    /\ Statement(i) = "SELECT"
    /\ \E row \in Fetched(i) :
          LET c == calls[i]
              refused ==
                  CASE c.op = "redeem_points" -> row = <<>> \/ row[1] < c.arg
                    [] c.op = "use_free_drink" -> row = <<>> \/ row[1] < STAMPS_FOR_FREE_DRINK
                    [] c.op = "refund_points" -> row = <<>> \/ Abs(row[1]) <= 0
                    [] OTHER -> FALSE
              refusal == IF c.op = "refund_points" THEN 0 ELSE FALSE
              local == CASE c.op = "refund_points" -> Abs(row[1])
                         [] c.op = "increment_stamps" -> IF row = <<>> THEN 0 ELSE row[1]
                         [] OTHER -> row[1]
          IN  IF refused
              THEN /\ calls' = Return(i, refusal)
                   /\ txn' = Rollback(i)
              ELSE /\ calls' = [Advance(i) EXCEPT ![i].row = local]
                   /\ UNCHANGED txn
    /\ UNCHANGED <<loyalty, points_history, orderVars, sessionVars, last>>

\* UPDATE loyalty SET ... WHERE user_id = ?
Update(i) ==
    /\ Running(i)
    /\ Statement(i) = "UPDATE"
    /\ txn.owner = i
    /\ LET c == calls[i]
           L == txn.loyalty
           row == L[c.user_id]
           updated ==
               CASE c.op = "accrue_points" ->
                        [row EXCEPT !.points = @ + PointsEarned(c.arg),
                                    !.total_orders = @ + 1,
                                    !.total_spent = @ + c.arg]
                 [] c.op = "redeem_points" -> [row EXCEPT !.points = @ - c.arg]
                 [] c.op = "refund_points" -> [row EXCEPT !.points = @ + c.row]
                 [] c.op = "increment_stamps" -> [row EXCEPT !.stamps = c.row + 1]
                 [] c.op = "use_free_drink" -> [row EXCEPT !.stamps = 0]
       IN  txn' = [txn EXCEPT !.loyalty =
                       IF c.user_id \in DOMAIN L THEN UpdateLoyalty(L, c.user_id, updated) ELSE L]
    /\ calls' = Advance(i)
    /\ UNCHANGED <<loyalty, points_history, orderVars, sessionVars, last>>

\* INSERT INTO points_history (user_id, amount, operation, order_id, description)
InsertHistory(i) ==
    /\ Running(i)
    /\ Statement(i) = "INSERT_HISTORY"
    /\ txn.owner = i
    /\ LET c == calls[i]
           entry == CASE c.op = "accrue_points" ->
                             HistoryEntry(c.user_id, PointsEarned(c.arg), "accrual", c.order_id)
                      [] c.op = "redeem_points" ->
                             HistoryEntry(c.user_id, -c.arg, "redemption", c.order_id)
                      [] c.op = "refund_points" ->
                             HistoryEntry(c.user_id, c.row, "refund", c.order_id)
       IN  txn' = [txn EXCEPT !.history = Append(@, entry)]
    /\ calls' = Advance(i)
    /\ UNCHANGED <<loyalty, points_history, orderVars, sessionVars, last>>

\* db.commit() and the return statement after it
Commit(i) ==
    /\ Running(i)
    /\ Statement(i) = "COMMIT"
    /\ txn.owner = i
    /\ loyalty' = txn.loyalty
    /\ points_history' = txn.history
    /\ txn' = NoTxn
    /\ LET c == calls[i]
       IN  calls' = Return(i, CASE c.op = "accrue_points" -> PointsEarned(c.arg)
                                [] c.op = "redeem_points" -> TRUE
                                [] c.op = "refund_points" -> c.row
                                [] c.op = "increment_stamps" ->
                                       <<c.row + 1, c.row + 1 >= STAMPS_FOR_FREE_DRINK>>
                                [] c.op = "use_free_drink" -> TRUE)
    /\ UNCHANGED <<orderVars, sessionVars, last>>

(***************************************************************************)
(* SpecTxn: a batch of ledger calls for one user, issued together and run   *)
(* statement by statement in any interleaving.  `last` keeps the tables the *)
(* batch started from.                                                      *)
(***************************************************************************)
MaxCalls == 3          \* calls in a batch

\* the calls a batch is drawn from, each at most once
CallTemplates ==
    <<[op |-> "accrue_points", user_id |-> 1, arg |-> 250, order_id |-> 2],
      [op |-> "accrue_points", user_id |-> 1, arg |-> 99, order_id |-> 3],
      [op |-> "redeem_points", user_id |-> 1, arg |-> 15, order_id |-> 2],
      [op |-> "redeem_points", user_id |-> 1, arg |-> 20, order_id |-> 3],
      [op |-> "refund_points", user_id |-> 1, arg |-> 0, order_id |-> 2],
      [op |-> "increment_stamps", user_id |-> 1, arg |-> 0, order_id |-> 0],
      [op |-> "use_free_drink", user_id |-> 1, arg |-> 0, order_id |-> 0]>>

NewCall(t) ==
    [op |-> t.op, user_id |-> t.user_id, arg |-> t.arg, order_id |-> t.order_id,
     pc |-> 1, row |-> 0, status |-> "running", ret |-> None]

\* an account one order old: 500 spent, 25 points accrued, five stamps
OneOrderAccount ==
    /\ loyalty = (1 :> [points |-> 25, stamps |-> 5, total_orders |-> 1, total_spent |-> 500])
    /\ points_history = <<HistoryEntry(1, 25, "accrual", 1)>>

InitTxn ==
    /\ \/ loyalty = <<>> /\ points_history = <<>>
       \/ OneOrderAccount
    /\ orders = <<>>
    /\ views = <<>>
    /\ menu_available = seeded_available
    /\ state = [u \in Users |-> None]
    /\ data = [u \in Users |-> <<>>]
    /\ msgs = [u \in Users |-> <<>>]
    /\ \E batch \in SUBSET DOMAIN CallTemplates :
          /\ batch # {}
          /\ Cardinality(batch) <= MaxCalls
          /\ calls = [i \in batch |-> NewCall(CallTemplates[i])]
    /\ txn = NoTxn
    /\ last = [op |-> "batch", loyalty |-> loyalty, history |-> points_history]

NextTxn ==
    \/ \E i \in DOMAIN calls : CheckArgs(i)
    \/ \E i \in DOMAIN calls : Begin(i)
    \/ \E i \in DOMAIN calls : InsertOrIgnore(i)
    \/ \E i \in DOMAIN calls : Select(i)
    \/ \E i \in DOMAIN calls : Update(i)
    \/ \E i \in DOMAIN calls : InsertHistory(i)
    \/ \E i \in DOMAIN calls : Commit(i)

SpecTxn == InitTxn /\ [][NextTxn]_vars

(***************************************************************************)
(* Claims about concurrent ledger calls.                                    *)
(***************************************************************************)
\* the outcomes of call c run alone, from the first statement to the last,
\* on tables L and H
RunAlone(c, L, H) ==
    CASE c.op = "accrue_points" ->
             LET r == accrue_points(L, H, c.user_id, c.arg, c.order_id)
             IN  {[loyalty |-> r.loyalty, history |-> r.history]}
      [] c.op = "redeem_points" ->
             LET r == redeem_points(L, H, c.user_id, c.arg, c.order_id)
             IN  {[loyalty |-> r.loyalty, history |-> r.history]}
      [] c.op = "refund_points" ->
             {[loyalty |-> r.loyalty, history |-> r.history] :
                  r \in refund_points(L, H, c.user_id, c.order_id)}
      [] c.op = "increment_stamps" ->
             {[loyalty |-> increment_stamps(L, c.user_id).loyalty, history |-> H]}
      [] c.op = "use_free_drink" ->
             {[loyalty |-> use_free_drink(L, c.user_id).loyalty, history |-> H]}

RECURSIVE SequentialOutcomes(_, _, _)
\* the <<points, stamps>> of user 1 after the calls in `ids` ran one after
\* another, in every order
SequentialOutcomes(ids, L, H) ==
    IF ids = {}
    THEN {<<PointsOf(L, 1), StampsOf(L, 1)>>}
    ELSE UNION {UNION {SequentialOutcomes(ids \ {i}, r.loyalty, r.history) :
                           r \in RunAlone(calls[i], L, H)} : i \in ids}

BatchDone == \A i \in DOMAIN calls : calls[i].status # "running"

\* the redeem calls of the batch that returned True
RedeemsSucceeded ==
    {i \in DOMAIN calls : /\ calls[i].op = "redeem_points"
                          /\ calls[i].status = "returned"
                          /\ calls[i].ret = TRUE}

\* the batch holds no call that adds points
NoCredits == \A i \in DOMAIN calls : calls[i].op \notin {"accrue_points", "refund_points"}

RECURSIVE SumOfArgs(_)
SumOfArgs(ids) ==
    IF ids = {} THEN 0
    ELSE LET i == CHOOSE j \in ids : TRUE IN calls[i].arg + SumOfArgs(ids \ {i})

\* C11: no lost updates.  When every call of a batch has returned, the
\* points balance and the stamp count are those of the same calls run one
\* after another in some order; no committed or uncommitted balance is ever
\* negative; and when nothing adds points, the redeems that succeeded took
\* together no more than the balance the batch started from (of two whose
\* amounts exceed it, at most one succeeds).
C11_NoLostUpdates ==
    /\ last.op = "batch" /\ BatchDone =>
           <<PointsOf(loyalty, 1), StampsOf(loyalty, 1)>>
               \in SequentialOutcomes(DOMAIN calls, last.loyalty, last.history)
    /\ \A u \in DOMAIN loyalty : loyalty[u].points >= 0
    /\ txn.owner # 0 => \A u \in DOMAIN txn.loyalty : txn.loyalty[u].points >= 0
    /\ last.op = "batch" /\ NoCredits =>
           SumOfArgs(RedeemsSucceeded) <= PointsOf(last.loyalty, 1)

\* a batch with both redeems (15 and 20 on a balance of 25) and a stamp has
\* run to its end: exactly one redeem succeeded
C11_Witness ==
    /\ last.op = "batch"
    /\ BatchDone
    /\ DOMAIN calls = {3, 4, 6}
    /\ Cardinality(RedeemsSucceeded) = 1
    /\ PointsOf(loyalty, 1) \in {5, 10}
    /\ StampsOf(loyalty, 1) = 6

\* a refund that found the redemption a redeem of the same batch had just
\* committed, with an accrual in the batch as well
C11_RefundInterleaved ==
    /\ last.op = "batch"
    /\ BatchDone
    /\ DOMAIN calls = {1, 3, 5}
    /\ calls[5].ret = 15
    /\ PointsOf(loyalty, 1) = 35

(***************************************************************************)
(* SpecTxnFault: the same batches on a database whose statements may fail   *)
(* (store unavailable, database locked).  A statement that raises inside    *)
(* the try block reaches `except: await db.rollback(); raise`; BEGIN        *)
(* IMMEDIATE and the SELECT of refund_points stand before the try block and *)
(* raise with nothing to roll back.                                         *)
(***************************************************************************)
Raise_keeps_writes(i) ==
    /\ Running(i)
    /\ Statement(i) # "ARGS"
    /\ IF txn.owner = i
       THEN /\ loyalty' = txn.loyalty
            /\ points_history' = txn.history
            /\ txn' = NoTxn
       ELSE UNCHANGED <<loyalty, points_history, txn>>
    /\ calls' = [calls EXCEPT ![i].status = "raised"]
    /\ UNCHANGED <<orderVars, sessionVars, last>>

Raise(i) ==
    /\ Running(i)
    /\ Statement(i) # "ARGS"
    /\ txn' = Rollback(i)
    /\ calls' = [calls EXCEPT ![i].status = "raised"]
    /\ UNCHANGED <<loyalty, points_history, orderVars, sessionVars, last>>

NextTxnFault ==
    \/ NextTxn
    \/ \E i \in DOMAIN calls : Raise(i)

SpecTxnFault == InitTxn /\ [][NextTxnFault]_vars

RECURSIVE SumAmounts(_, _)
\* the sum of the signed amounts of the history rows of a user
SumAmounts(H, user_id) ==
    IF H = <<>> THEN 0
    ELSE (IF Head(H).user_id = user_id THEN Head(H).amount ELSE 0)
             + SumAmounts(Tail(H), user_id)

\* the operation column of the rows a function writes
OperationOf(op) ==
    CASE op = "accrue_points" -> "accrual"
      [] op = "redeem_points" -> "redemption"
      [] op = "refund_points" -> "refund"
      [] OTHER -> None

\* the committed history rows written by call i
RowsOf(i) ==
    {r \in 1..Len(points_history) :
         /\ r > Len(last.history)
         /\ points_history[r].operation = OperationOf(calls[i].op)
         /\ points_history[r].order_id = calls[i].order_id}

\* C12: ledger consistency.  The committed balance of every account is the
\* sum of the signed amounts of its committed history rows; and a call that
\* raised has left no history row (and so, the balance being that sum, no
\* change of the balance) behind, whichever statement it failed at.
C12_LedgerConsistent ==
    /\ \A u \in DOMAIN loyalty : loyalty[u].points = SumAmounts(points_history, u)
    /\ last.op = "batch" =>
           \A i \in DOMAIN calls : calls[i].status = "raised" => RowsOf(i) = {}

\* a redeem raised after its UPDATE, inside the transaction, while the
\* accrual of the same batch was committed
C12_Witness ==
    /\ last.op = "batch"
    /\ DOMAIN calls = {1, 3}
    /\ calls[3].status = "raised"
    /\ calls[3].pc = 5
    /\ calls[1].status = "returned"
    /\ PointsOf(loyalty, 1) = 35
    /\ Len(points_history) = 2

(***************************************************************************)
(* SpecCheckoutStale: the returning customer orders with /start sent again  *)
(* at any moment, so that the bonus keyboard of an abandoned checkout stays *)
(* in the chat while a later checkout is in state applying_bonus.           *)
(***************************************************************************)
MaxStaleCheckoutQty == 1    \* SpecCheckoutStale: items in a cart
MaxStaleOrders == 3         \* SpecCheckoutStale: rows of table orders

InitCheckoutStale ==
    /\ ReturningCustomer
    /\ views = <<>>
    /\ menu_available = seeded_available
    /\ state = [u \in Users |-> None]
    /\ data = [u \in Users |-> <<>>]
    /\ msgs = [u \in Users |-> <<>>]
    /\ calls = <<>>
    /\ txn = NoTxn
    /\ last = [op |-> "none"]

NextCheckoutStale ==
    \/ cmd_start(1)
    \/ (add_to_cart(1) /\ last'.item_id \in CheckoutItems
                       /\ CartWithin(1, MaxStaleCheckoutQty))
    \/ (select_size(1) /\ CartWithin(1, MaxStaleCheckoutQty))
    \/ show_cart(1)
    \/ checkout(1)
    \/ (select_time(1) /\ last'.minutes \in CheckoutMinutes)
    \/ bonus_use(1)
    \/ bonus_max(1)
    \/ (confirm_order(1) /\ last'.failed = {} /\ Len(orders') <= MaxStaleOrders)

SpecCheckoutStale == InitCheckoutStale /\ [][NextCheckoutStale]_vars

(***************************************************************************)
(* Claims about the bonus at the confirmation.                              *)
(***************************************************************************)
FallbackStep ==
    LET u == last'.user_id
        cart == Get(data[u], "cart", <<>>)
        b == Get(data[u], "bonus_used", 0)
        total == CartTotal(cart)
        balance == PointsOf(loyalty, u)
        n == Len(orders) + 1
    IN  (cart # <<>> /\ b > 0 /\ b > balance) =>
           /\ Len(orders') = n
           /\ SubSeq(orders', 1, Len(orders)) = orders
           /\ orders'[n].user_id = u
           /\ orders'[n].status = CONFIRMED
           /\ orders'[n].total = total
           /\ RedemptionRows(points_history', u, n) = {}
           /\ PointsOf(loyalty', u) = balance + (total \div 100) * 5
           /\ total >= 100 =>
                  points_history' = Append(points_history,
                                           HistoryEntry(u, (total \div 100) * 5, "accrual", n))
           /\ StampsOf(loyalty', u) = StampsOf(loyalty, u) + 1
           /\ last'.bonus_used = 0

\* C13: when the bonus a confirmed session holds exceeds the balance of the
\* moment, so that the redemption made after the order was stored fails, the
\* order stays stored with status CONFIRMED and its full total, no redemption
\* row is written for it, the balance is not decremented, and the accrual
\* and the stamp increment still take place.
C13_RedemptionFallback ==
    [][last'.op = "confirm_order" => FallbackStep]_vars

\* the bonus of 50 was taken from the keyboard of an abandoned checkout after
\* an order in between had spent the balance down to 10: the order of 200 is
\* stored, the balance is 10 + 10
C13_Witness ==
    /\ last.op = "confirm_order"
    /\ last.result = "ordered"
    /\ last.bonus_used = 0
    /\ Len(orders) = 3
    /\ orders[3].status = CONFIRMED
    /\ orders[3].total = 200
    /\ RedemptionRows(points_history, 1, 2) # {}
    /\ RedemptionRows(points_history, 1, 3) = {}
    /\ loyalty[1].points = 20
    /\ loyalty[1].stamps = 3

\* C14: redemption is capped per order.  Every redemption row of a stored
\* order takes at most floor(order.total * 30 / 100) points, whichever bonus
\* amount was recorded in state applying_bonus and then confirmed.
C14_RedemptionCapped ==
    \A r \in 1..Len(points_history) :
        (points_history[r].operation = "redemption"
             /\ points_history[r].order_id \in DOMAIN orders) =>
            Abs(points_history[r].amount)
                <= (orders[points_history[r].order_id].total * MAX_REDEEM_PERCENT) \div 100

\* the bonus:use:50 button offered for a cart of 200 was pressed while the
\* session was applying a bonus to a cart of 120: 50 points were redeemed on
\* an order whose cap is 36
C14_OverCap ==
    /\ last.op = "confirm_order"
    /\ last.result = "ordered"
    /\ last.bonus_used = 50
    /\ orders[last.order_id].total = 120
    /\ \E r \in RedemptionRows(points_history, 1, last.order_id) :
           points_history[r].amount = -50
    /\ loyalty[1].points = 60 - 50 + 5

(***************************************************************************)
(* SpecCancel: the returning customer orders with a bonus, looks the order  *)
(* up in the history and cancels it, while the barista works through the    *)
(* panel.  The store does not fail here.                                    *)
(***************************************************************************)
MaxCancelOrders == 2       \* SpecCancel, SpecCancelFault: rows of table orders
MaxCancelMsgs == 3         \* SpecCancel, SpecCancelFault: messages in the client chat
MaxCancelQty == 1          \* SpecCancel, SpecCancelFault: items in a cart

\* the menu button the client presses in SpecCancel and SpecCancelFault
CancelItems == {4}

MsgsWithin(user_id, n) == Cardinality(DOMAIN msgs[user_id]) < n

NextCancel ==
    \/ (state[1] = None /\ Len(orders) < MaxCancelOrders /\ cmd_start(1))
    \/ (add_to_cart(1) /\ last'.item_id \in CancelItems /\ CartWithin(1, MaxCancelQty))
    \/ (select_size(1) /\ CartWithin(1, MaxCancelQty))
    \/ show_cart(1)
    \/ checkout(1)
    \/ (select_time(1) /\ last'.minutes \in CheckoutMinutes)
    \/ bonus_use(1)
    \/ bonus_max(1)
    \/ (confirm_order(1) /\ last'.failed = {} /\ Len(orders') <= MaxCancelOrders)
    \/ (MsgsWithin(1, MaxCancelMsgs) /\ Len(orders) > 1 /\ cmd_history(1))
    \/ history_view_order(1)
    \/ history_back(1)
    \/ (cancel_order(1) /\ last'.fault = "none")
    \/ cmd_barista
    \/ refresh_orders
    \/ back_to_list
    \/ show_order_detail
    \/ (change_status /\ last'.delivered = last'.notified)

SpecCancel == InitCheckoutStale /\ [][NextCancel]_vars

RECURSIVE SumOver(_, _)
\* the sum of the amounts of the history rows with the indices in `rows`
SumOver(H, rows) ==
    IF rows = {} THEN 0
    ELSE LET r == CHOOSE x \in rows : TRUE IN H[r].amount + SumOver(H, rows \ {r})

RefundRows(H, order_id) ==
    {i \in 1..Len(H) : H[i].order_id = order_id /\ H[i].operation = "refund"}

RedemptionRowsOfOrder(H, order_id) ==
    {i \in 1..Len(H) : H[i].order_id = order_id /\ H[i].operation = "redemption"}

\* C15: a refund happens at most once per order.  Whatever the client
\* cancels and the barista changes, each order has at most one refund row,
\* and the points refunded for an order do not exceed the points redeemed
\* for it.
C15_RefundOnce ==
    \A order_id \in DOMAIN orders :
        /\ Cardinality(RefundRows(points_history, order_id)) <= 1
        /\ SumOver(points_history, RefundRows(points_history, order_id))
               <= - SumOver(points_history, RedemptionRowsOfOrder(points_history, order_id))

\* the order with a bonus of 50 was cancelled and refunded once, and the
\* barista then set it to PREPARING from a detail keyboard opened before the
\* cancellation, while the client still has a cancel button on an older
\* message
C15_Witness ==
    /\ Len(orders) = 2
    /\ orders[2].status = PREPARING
    /\ Cardinality(RefundRows(points_history, 2)) = 1
    /\ \E r \in RefundRows(points_history, 2) : points_history[r].amount = 50
    /\ \E m \in DOMAIN msgs[1] : msgs[1][m].kind = "order_detail" /\ msgs[1][m].cancel

(***************************************************************************)
(* SpecCancelFault: the same customer and the same flow without the         *)
(* barista, on a store whose calls may raise during the cancellation.       *)
(***************************************************************************)
NextCancelFault ==
    \/ (state[1] = None /\ Len(orders) < MaxCancelOrders /\ cmd_start(1))
    \/ (add_to_cart(1) /\ last'.item_id \in CancelItems /\ CartWithin(1, MaxCancelQty))
    \/ (select_size(1) /\ CartWithin(1, MaxCancelQty))
    \/ show_cart(1)
    \/ checkout(1)
    \/ (select_time(1) /\ last'.minutes \in CheckoutMinutes)
    \/ bonus_skip(1)
    \/ bonus_use(1)
    \/ bonus_max(1)
    \/ (confirm_order(1) /\ last'.failed = {} /\ Len(orders') <= MaxCancelOrders)
    \/ (MsgsWithin(1, MaxCancelMsgs) /\ Len(orders) > 1 /\ cmd_history(1))
    \/ history_view_order(1)
    \/ history_back(1)
    \/ cancel_order(1)

SpecCancelFault == InitCheckoutStale /\ [][NextCancelFault]_vars

\* C16: cancellation and refund are all-or-nothing.  In every state, also
\* after a persistence failure in the middle of the cancel flow, an order
\* that had a redemption is CANCELLED exactly when the redeemed points have
\* been restored.
C16_CancelRefundAtomic ==
    \A order_id \in DOMAIN orders :
        LET redeemed == - SumOver(points_history,
                                  RedemptionRowsOfOrder(points_history, order_id))
            refunded == SumOver(points_history, RefundRows(points_history, order_id))
        IN  redeemed > 0 =>
               /\ orders[order_id].status = CANCELLED => refunded = redeemed
               /\ orders[order_id].status # CANCELLED => refunded = 0

\* refund_points raised after cancel_order_by_client had committed: order 2
\* is CANCELLED, its redemption of 50 has no refund row and the balance is
\* still 60 - 50 + 10
C16_CancelledUnrefunded ==
    /\ last.op = "cancel_order"
    /\ last.fault = "refund_points"
    /\ orders[2].status = CANCELLED
    /\ \E r \in RedemptionRowsOfOrder(points_history, 2) : points_history[r].amount = -50
    /\ RefundRows(points_history, 2) = {}
    /\ loyalty[1].points = 20

(***************************************************************************)
(* Repeating an order from the history (bot/handlers/client.py,             *)
(* bot/database.py).                                                        *)
(***************************************************************************)
get_order_items_for_repeat_all_available(O, order_id) ==
    LET order == get_order(O, order_id)
    IN  IF order = <<>> THEN <<>>
        ELSE [i \in DOMAIN order[1].items |->
                 LET item == order[1].items[i]
                 IN  [menu_item_id |-> item.menu_item_id, price |-> item.price,
                      quantity |-> item.quantity,
                      is_available |-> TRUE,
                      size |-> Get(item, "size", None),
                      modifier_ids |-> Get(item, "modifier_ids", <<>>),
                      modifiers_price |-> Get(item, "modifiers_price", 0)]]

\* get_order_items_for_repeat: the items of the order with the availability
\* of each in the menu of this moment
get_order_items_for_repeat(O, order_id) ==
    LET order == get_order(O, order_id)
    IN  IF order = <<>> THEN <<>>
        ELSE [i \in DOMAIN order[1].items |->
                 LET item == order[1].items[i]
                     row == get_menu_item(item.menu_item_id)
                 IN  [menu_item_id |-> item.menu_item_id, price |-> item.price,
                      quantity |-> item.quantity,
                      is_available |-> (row # <<>> /\ row[1].available),
                      size |-> Get(item, "size", None),
                      modifier_ids |-> Get(item, "modifier_ids", <<>>),
                      modifiers_price |-> Get(item, "modifiers_price", 0)]]

RECURSIVE AddRepeated(_, _)
\* the cart after the loop over available_items: the quantity of the first
\* line of the same configuration is raised, otherwise a line is appended
AddRepeated(cart, items) ==
    IF items = <<>> THEN cart
    ELSE LET item == Head(items)
             matching == {i \in DOMAIN cart :
                              MatchesConfiguration(cart[i], item.menu_item_id,
                                                   item.size, item.modifier_ids)}
             next == IF matching = {}
                     THEN Append(cart, [menu_item_id |-> item.menu_item_id,
                                        price |-> item.price,
                                        quantity |-> item.quantity,
                                        size |-> item.size,
                                        modifier_ids |-> item.modifier_ids,
                                        modifiers_price |-> item.modifiers_price])
                     ELSE [cart EXCEPT ![MinOf(matching)].quantity = @ + item.quantity]
         IN  AddRepeated(next, Tail(items))

\* a callback query repeat:<order_id> of a user, from message m; the handler
\* has no state filter
repeat_order_callback(user_id, m, order_id) ==
    LET order == get_order(orders, order_id)
        items_for_repeat == get_order_items_for_repeat(orders, order_id)
        available_items == SelectSeq(items_for_repeat, LAMBDA i : i.is_available)
        browsing == state[user_id] = "browsing_menu"
        cart == IF browsing THEN Get(data[user_id], "cart", <<>>) ELSE <<>>
        new_cart == AddRepeated(cart, available_items)
    IN  /\ IF order = <<>> \/ order[1].user_id # user_id
           THEN /\ last' = [op |-> "repeat_order", user_id |-> user_id,
                            order_id |-> order_id, answer |-> "not_found"]
                /\ UNCHANGED sessionVars
           ELSE IF items_for_repeat = <<>>
           THEN /\ last' = [op |-> "repeat_order", user_id |-> user_id,
                            order_id |-> order_id, answer |-> "load_failed"]
                /\ UNCHANGED sessionVars
           ELSE IF available_items = <<>>
           THEN /\ last' = [op |-> "repeat_order", user_id |-> user_id,
                            order_id |-> order_id, answer |-> "all_unavailable"]
                /\ msgs' = [msgs EXCEPT ![user_id][m] = NoKeyboard]
                /\ UNCHANGED <<state, data>>
           ELSE /\ last' = [op |-> "repeat_order", user_id |-> user_id,
                            order_id |-> order_id, answer |-> "added"]
                /\ state' = [state EXCEPT ![user_id] = "browsing_menu"]
                /\ data' = [data EXCEPT ![user_id] = UpdateData(@, [cart |-> new_cart])]
                /\ msgs' = [msgs EXCEPT ![user_id][m] = cart_keyboard(new_cart)]
        /\ UNCHANGED <<ledgerVars, orderVars>>

\* the repeat button of an order detail keyboard
repeat_order(user_id) ==
    \E m \in DOMAIN msgs[user_id] :
        /\ msgs[user_id][m].kind = "order_detail"
        /\ repeat_order_callback(user_id, m, msgs[user_id][m].order_id)

(***************************************************************************)
(* SpecLeak: orders of two users are in the store; user 1 sends callback    *)
(* queries that address an order by its id, for every id: of an own order,  *)
(* of an order of user 2 and of no order.                                   *)
(***************************************************************************)
MaxLeakOrders == 2     \* SpecLeak: rows of table orders
MaxLeakQty == 6        \* SpecLeak: items in a cart

CreateOrderForLeak ==
    /\ Len(orders) < MaxLeakOrders
    /\ CreateOrderCall

HistoryViewCallback ==
    \E m \in DOMAIN msgs[1], order_id \in 1..(Len(orders) + 1) :
        history_view_order_callback(1, m, order_id)

CancelCallback ==
    \E m \in DOMAIN msgs[1], order_id \in 1..(Len(orders) + 1) :
        /\ cancel_order_callback(1, m, order_id)
        /\ last'.fault = "none"

RepeatCallback ==
    \E m \in DOMAIN msgs[1], order_id \in 1..(Len(orders) + 1) :
        /\ repeat_order_callback(1, m, order_id)
        /\ CartWithin(1, MaxLeakQty)

NextLeak ==
    \/ CreateOrderForLeak
    \/ (MsgsWithin(1, 1) /\ cmd_history(1))
    \/ history_back(1)
    \/ HistoryViewCallback
    \/ CancelCallback
    \/ RepeatCallback

SpecLeak == InitLedger /\ [][NextLeak]_vars

\* the answer of a handler to a callback that addresses the order of another
\* user is the answer it gives for an id that does not exist, and nothing
\* changes
LeakStep ==
    LET order_id == last'.order_id
        u == last'.user_id
        foreign == order_id \in DOMAIN orders /\ orders[order_id].user_id # u
        unknown == order_id \notin DOMAIN orders
        answer == IF last'.op = "cancel_order" THEN last'.message ELSE last'.answer
    IN  (foreign \/ unknown) =>
           /\ answer = "not_found"
           /\ UNCHANGED <<loyalty, points_history, orders, views, state, data, msgs>>

\* C17: no existence leak for orders.  For cancel, view from the history and
\* repeat, the result returned to a user who is not the owner of the order
\* is the result returned for an order id that does not exist, and neither
\* case changes any state.
C17_NoExistenceLeak ==
    [][last'.op \in {"cancel_order", "history_view_order", "repeat_order"} => LeakStep]_vars

\* user 1 asked for the details of an order of user 2 and was answered "no
\* access" where an unknown id is answered "not found"
C17_AccessDeniedAnswer ==
    /\ last.op = "history_view_order"
    /\ last.user_id = 1
    /\ last.order_id \in DOMAIN orders
    /\ orders[last.order_id].user_id = 2
    /\ last.answer = "no_access"

\* cancel and repeat answer alike for the two cases
C17_CancelRepeatAlike ==
    [][last'.op \in {"cancel_order", "repeat_order"} => LeakStep]_vars

(***************************************************************************)
(* Claims about the session after the confirmation.                         *)
(***************************************************************************)
\* the handlers of the menu, whose filter is state browsing_menu
MenuActions == {"add_to_cart", "show_cart", "cart_back_to_menu", "checkout"}

Confirmed == last'.op = "confirm_order" /\ last'.result = "ordered"

C18_NoStateAfterConfirm ==
    /\ last.op = "confirm_order"
    /\ last.result = "ordered"
    /\ state[1] = None
    /\ data[1] = <<>>

(***************************************************************************)
(* SpecNotify: the checkout of a new or returning customer while any of the *)
(* baristas may be unreachable (blocked the bot, network error).            *)
(***************************************************************************)
MaxNotifyQty == 1      \* SpecNotify: items in a cart

NextNotify ==
    \/ (state[1] = None /\ MsgsWithin(1, 2) /\ cmd_start(1))
    \/ (add_to_cart(1) /\ last'.item_id \in CheckoutItems /\ CartWithin(1, MaxNotifyQty))
    \/ (select_size(1) /\ CartWithin(1, MaxNotifyQty))
    \/ show_cart(1)
    \/ checkout(1)
    \/ (select_time(1) /\ last'.minutes \in CheckoutMinutes)
    \/ bonus_skip(1)
    \/ bonus_use(1)
    \/ bonus_max(1)
    \/ confirm_order(1)

SpecNotify == InitCheckout /\ [][NextNotify]_vars

NotifyStep ==
    LET u == last'.user_id
        cart == Get(data[u], "cart", <<>>)
        total == CartTotal(cart)
        n == Len(orders) + 1
    IN  cart # <<>> =>
           /\ last'.result = "ordered"
           /\ last'.attempted = barista_id_list
           /\ last'.delivered = barista_id_list \ last'.failed
           /\ Len(orders') = n
           /\ orders'[n].status = CONFIRMED
           /\ orders'[n].total = total
           /\ PointsOf(loyalty', u)
                  = PointsOf(loyalty, u) - last'.bonus_used + (total \div 100) * 5
           /\ StampsOf(loyalty', u) = StampsOf(loyalty, u) + 1
           /\ state'[u] = None
           /\ data'[u] = <<>>

\* C19: the notification of the baristas is isolated.  Whichever baristas
\* cannot be reached, a send is attempted to every barista and delivered to
\* every other one, the confirmation completes without raising, the order
\* and the loyalty mutations made before the dispatch stand, and the session
\* is cleared.
C19_NotifyIsolated ==
    [][last'.op = "confirm_order" => NotifyStep]_vars

\* the send to barista 7 failed and the one to barista 8 went through; the
\* order of the returning customer is stored and the session cleared
C19_Witness ==
    /\ last.op = "confirm_order"
    /\ last.result = "ordered"
    /\ last.failed = {7}
    /\ last.attempted = {7, 8}
    /\ last.delivered = {8}
    /\ Len(orders) = 2
    /\ orders[2].status = CONFIRMED
    /\ loyalty[1].stamps = 2
    /\ state[1] = None

\* no barista could be reached
C19_AllFailed ==
    /\ last.op = "confirm_order"
    /\ last.result = "ordered"
    /\ last.failed = {7, 8}
    /\ last.delivered = {}
    /\ state[1] = None

(***************************************************************************)
(* SpecReady: the barista takes orders through their statuses while the     *)
(* owner of an order may have blocked the bot.                              *)
(***************************************************************************)
MaxReadyOrders == 2    \* SpecReady: rows of table orders

CreateOrderForReady ==
    /\ Len(orders) < MaxReadyOrders
    /\ CreateOrderCall

NextReady ==
    \/ CreateOrderForReady
    \/ cmd_barista
    \/ refresh_orders
    \/ back_to_list
    \/ show_order_detail
    \/ change_status

SpecReady == InitLedger /\ [][NextReady]_vars

StatusChangeStep ==
    LET order_id == last'.order_id
    IN  order_id \in DOMAIN orders =>
           /\ last'.notified <=> last'.new_status = READY
           /\ ~last'.raised
           /\ orders' = [orders EXCEPT ![order_id].status = last'.new_status]

\* C20: a status change by the barista sends a notification to the owner of
\* the order if and only if the new status is READY; when the send fails
\* nothing is raised and the status written stays.
C20_ReadyNotification ==
    [][last'.op = "change_status" => StatusChangeStep]_vars

\* an order was set to READY and the message to its owner could not be sent
C20_Witness ==
    /\ last.op = "change_status"
    /\ last.new_status = READY
    /\ last.notified
    /\ ~last.delivered
    /\ ~last.raised
    /\ orders[last.order_id].status = READY
    /\ \E m \in DOMAIN views : /\ views[m].kind = "barista_detail"
                               /\ views[m].order_id = last.order_id
                               /\ views[m].status = COMPLETED

\* a change to PREPARING sends nothing
C20_PreparingSilent ==
    /\ last.op = "change_status"
    /\ last.new_status = PREPARING
    /\ ~last.notified
    /\ orders[last.order_id].status = PREPARING

(***************************************************************************)
(* Claims about the guards and the routing of the checkout.                *)
(***************************************************************************)
\* a press of cart:checkout by a session in state browsing_menu
CheckoutGuardStep ==
    LET u == last'.user_id
        cart == Get(data[u], "cart", <<>>)
    IN  /\ state[u] = "browsing_menu"
        /\ (state'[u] = "selecting_time") <=> (cart # <<>>)
        /\ cart = <<>> => /\ state'[u] = state[u]
                          /\ data'[u] = data[u]
        /\ data'[u].cart = cart
        /\ UNCHANGED <<loyalty, points_history, orders>>

\* a press of confirm:yes by a session whose cart is empty
ConfirmEmptyStep ==
    LET u == last'.user_id
    IN  Get(data[u], "cart", <<>>) = <<>> =>
            UNCHANGED <<orders, loyalty, points_history, state, data>>

C21_NonEmptyMoved ==
    /\ last.op = "checkout"
    /\ last.result = "time"
    /\ state[1] = "selecting_time"
    /\ data[1].cart # <<>>

\* a press of time:<minutes> by a session in state selecting_time
SelectTimeStep ==
    LET u == last'.user_id
        total == CartTotal(Get(data[u], "cart", <<>>))
        balance == PointsOf(loyalty, u)
    IN  /\ state[u] = "selecting_time"
        /\ data'[u].pickup_time = last'.minutes
        /\ data'[u].cart = data[u].cart
        /\ IF calculate_max_redeem(total, balance) > 0
           THEN /\ state'[u] = "applying_bonus"
                /\ Get(data'[u], "bonus_used", None) = Get(data[u], "bonus_used", None)
           ELSE /\ state'[u] = "confirming"
                /\ data'[u].bonus_used = 0

\* C22: choosing a duration in selecting_pickup_time records the pickup label
\* and moves to applying_bonus if and only if calculate_max_redeem(current
\* cart total, user's current balance) > 0; otherwise it moves directly to
\* confirming with the bonus recorded as 0.
C22_TimeRouting ==
    [][last'.op = "select_time" => SelectTimeStep]_vars

\* C22 witness: the returning customer with 60 points chose 15 minutes for a
\* cart of 120, of which 36 can be redeemed, and is asked about the bonus.
C22_Witness ==
    /\ last.op = "select_time"
    /\ state[1] = "applying_bonus"
    /\ data[1].pickup_time = 15
    /\ CartTotal(data[1].cart) = 120
    /\ PointsOf(loyalty, 1) = 60

\* The other side: a customer without points goes straight to the
\* confirmation with bonus 0.
C22_NoPointsConfirming ==
    /\ last.op = "select_time"
    /\ state[1] = "confirming"
    /\ data[1].pickup_time = 15
    /\ data[1].bonus_used = 0
    /\ PointsOf(loyalty, 1) = 0

(***************************************************************************)
(* Menu management of the barista (bot/handlers/barista.py): a hidden item *)
(* is no longer listed by get_menu, but stays on the menu keyboards that   *)
(* were drawn before.                                                      *)
(***************************************************************************)
MenuManageMsgIds == {2}

\* all items with their availability, as the keyboard marks them
menu_manage_keyboard(items) == [kind |-> "menu_manage", items |-> items]

get_all_menu_items == menu_available

\* UPDATE menu_items SET available = 1 - available WHERE id = ?
toggle_menu_item_availability(A, item_id) ==
    IF item_id \in DOMAIN A THEN [A EXCEPT ![item_id] = ~@] ELSE A

\* /menu_manage
cmd_menu_manage ==
    /\ FreeIds(views, MenuManageMsgIds) # {}
    /\ views' = views @@ (NewMsgId(views, MenuManageMsgIds) :>
                              menu_manage_keyboard(get_all_menu_items))
    /\ last' = [op |-> "cmd_menu_manage"]
    /\ UNCHANGED <<ledgerVars, orders, menu_available, sessionVars>>

\* a callback query menu_toggle:<id> of a user, from message m
toggle_menu_item_callback(user_id, m, item_id) ==
    /\ IF ~is_barista(user_id)
       THEN /\ last' = [op |-> "toggle_menu_item", user_id |-> user_id,
                        answer |-> "no_access", item_id |-> item_id]
            /\ UNCHANGED <<menu_available, views>>
       ELSE /\ menu_available' = toggle_menu_item_availability(menu_available, item_id)
            /\ views' = IF item_id \in DOMAIN menu_available
                        THEN [views EXCEPT ![m] = menu_manage_keyboard(menu_available')]
                        ELSE views
            /\ last' = [op |-> "toggle_menu_item", user_id |-> user_id,
                        answer |-> IF item_id \in DOMAIN menu_available
                                   THEN "toggled" ELSE "not_found",
                        item_id |-> item_id]
    /\ UNCHANGED <<ledgerVars, orders, sessionVars>>

\* a menu_toggle:<id> button of the menu management keyboard of the panel
toggle_menu_item ==
    \E m \in DOMAIN views :
        /\ views[m].kind = "menu_manage"
        /\ \E item_id \in DOMAIN views[m].items :
              toggle_menu_item_callback(PanelBarista, m, item_id)

(***************************************************************************)
(* SpecMenu: one client picks items while the barista hides and shows      *)
(* items; the client also sends a menu callback with an id of no item.     *)
(***************************************************************************)
MaxMenuQty == 1        \* SpecMenu: items in a cart

\* the items the barista toggles in SpecMenu, and an id of no item
ManagedItems == {1, 5}
UnknownItemIds == {9}

AddToCartUnknown ==
    \E m \in DOMAIN msgs[1], item_id \in UnknownItemIds :
        add_to_cart_callback(1, m, item_id)

NextMenu ==
    \/ (msgs[1] = <<>> /\ cmd_start(1))
    \/ (add_to_cart(1) /\ CartWithin(1, MaxMenuQty))
    \/ AddToCartUnknown
    \/ select_size_back(1)
    \/ (select_size(1) /\ CartWithin(1, MaxMenuQty))
    \/ modifiers_back(1)
    \/ (modifiers_done(1) /\ CartWithin(1, MaxMenuQty))
    \/ cmd_menu_manage
    \/ (toggle_menu_item /\ last'.item_id \in ManagedItems)

SpecMenu == InitLedger /\ [][NextMenu]_vars

\* a press of menu:<id> by a session in state browsing_menu
SelectItemStep ==
    LET u == last'.user_id
        id == last'.item_id
        cart == data[u].cart
        key == <<id, "none", <<>>>>
        lines == {i \in DOMAIN cart : cart_item_key(cart[i]) = key}
        offered == id \in DOMAIN menu_items /\ menu_available[id]
        has_size == \E s \in DOMAIN menu_item_sizes[id] : menu_item_sizes[id][s].available
        has_modifier == \E x \in menu_item_modifiers[id] : modifiers[x].is_available
    IN  /\ state[u] = "browsing_menu"
        /\ IF ~offered
           THEN /\ state'[u] = state[u]
                /\ data'[u].cart = cart
           ELSE IF has_size THEN state'[u] = "selecting_size"
           ELSE IF has_modifier THEN state'[u] = "selecting_modifiers"
           ELSE /\ state'[u] = "browsing_menu"
                /\ IF lines = {}
                   THEN /\ Len(data'[u].cart) = Len(cart) + 1
                        /\ SubSeq(data'[u].cart, 1, Len(cart)) = cart
                        /\ cart_item_key(data'[u].cart[Len(cart) + 1]) = key
                        /\ data'[u].cart[Len(cart) + 1].quantity = 1
                   ELSE /\ Cardinality(lines) = 1
                        /\ \A i \in lines :
                              data'[u].cart = [cart EXCEPT ![i].quantity = @ + 1]

\* C23: in state browsing, selecting an available item moves to
\* selecting_size if the item has at least one available size; otherwise to
\* selecting_modifiers if it has at least one offerable modifier; otherwise
\* the item is merged into the cart by identity key and the state stays
\* browsing.  Selecting an item that is unavailable or unknown changes
\* neither the state nor the cart.
C23_ItemRouting ==
    [][last'.op = "add_to_cart" => SelectItemStep]_vars

\* C23 witness: item 1 was pressed on a menu keyboard drawn before the
\* barista hid it: the session is still browsing with its empty cart.
C23_Witness ==
    /\ last.op = "add_to_cart"
    /\ last.item_id = 1
    /\ last.result = "unavailable"
    /\ ~menu_available[1]
    /\ state[1] = "browsing_menu"
    /\ data[1].cart = <<>>

\* An id of no item is refused as well.
C23_UnknownRefused ==
    /\ last.op = "add_to_cart"
    /\ last.item_id \in UnknownItemIds
    /\ last.result = "unavailable"
    /\ state[1] = "browsing_menu"

\* Item 2, whose only size row is unavailable, goes to the modifiers.
C23_NoAvailableSize ==
    /\ last.op = "add_to_cart"
    /\ last.item_id = 2
    /\ state[1] = "selecting_modifiers"

\* Item 1, whose only linked modifier is unavailable, goes into the cart.
C23_NoOfferableModifier ==
    /\ last.op = "add_to_cart"
    /\ last.item_id = 1
    /\ last.result = "added"
    /\ state[1] = "browsing_menu"
    /\ Len(data[1].cart) = 1
    /\ data[1].cart[1].quantity = 1

\* Item 5, shown again by the barista, goes into the cart too.
C23_ShownAgain ==
    /\ last.op = "add_to_cart"
    /\ last.item_id = 5
    /\ last.result = "added"

\* the steps that bring a session into state confirming, each with the bonus
\* it records
EntersConfirming(u) ==
    /\ "bonus_used" \in DOMAIN data'[u]
    /\ \/ /\ last'.op = "select_time"
          /\ data'[u].bonus_used = 0
       \/ /\ last'.op = "bonus_skip"
          /\ data'[u].bonus_used = 0
       \/ /\ last'.op \in {"bonus_use", "bonus_max"}
          /\ data'[u].bonus_used = last'.amount

EditStep ==
    \A u \in Users :
        /\ (last'.op = "confirm_edit" /\ last'.user_id = u) =>
              /\ state[u] = "confirming"
              /\ state'[u] = "browsing_menu"
              /\ data'[u].cart = data[u].cart
        /\ (state[u] # "confirming" /\ state'[u] = "confirming") =>
              /\ last'.user_id = u
              /\ state[u] \in {"selecting_time", "applying_bonus"}
              /\ EntersConfirming(u)
        /\ (state[u] = "confirming" /\ state'[u] = "confirming") =>
              data'[u].bonus_used = data[u].bonus_used
        /\ (last'.op = "confirm_order" /\ last'.user_id = u /\ last'.result = "ordered") =>
              last'.bonus_used \in {0, data[u].bonus_used}

\* a press of confirm:edit after which the session data holds no bonus
DiscardStep ==
    last'.op = "confirm_edit" =>
        Get(data'[last'.user_id], "bonus_used", 0) = 0

\* a press of confirm:edit leaves the session data as it is
KeepStep ==
    last'.op = "confirm_edit" =>
        data'[last'.user_id] = data[last'.user_id]

\* C24 as stated: the edit action in state confirming returns to browsing
\* with the cart unchanged and the bonus selection discarded, and whenever
\* the session next reaches confirming the recorded bonus is the one chosen
\* (or set to 0) during the most recent pass through pickup-time selection,
\* never a value left over from before the edit.
C24_EditDiscardsBonus ==
    [][EditStep /\ DiscardStep]_vars

\* C24 amended: the edit action in state confirming returns to browsing with
\* the cart unchanged; the bonus selection stays in the session data, but
\* whenever the session next reaches confirming the recorded bonus is the
\* one chosen (or set to 0) during the most recent pass through pickup-time
\* selection, never a value left over from before the edit.
C24_EditKeepsBonusUnused ==
    [][EditStep /\ KeepStep]_vars

\* C24 witness: the session had chosen a bonus of 50, went back with edit,
\* passed the pickup time again and skipped the bonus: it is confirming with
\* bonus 0, not with the 50 from before the edit.
C24_Witness ==
    /\ last.op = "bonus_skip"
    /\ last.before = 50
    /\ state[1] = "confirming"
    /\ data[1].bonus_used = 0

\* The edit itself: the session is browsing with its cart, and the data
\* still holds the 50.
C24_Edited ==
    /\ last.op = "confirm_edit"
    /\ state[1] = "browsing_menu"
    /\ data[1].cart # <<>>
    /\ data[1].bonus_used = 50

(***************************************************************************)
(* The cart view of a client session: quantities and comments              *)
(* (bot/handlers/client.py:618-835).  A button of the cart keyboard        *)
(* carries the key of its line.                                            *)
(***************************************************************************)
MAX_COMMENT_LENGTH == 100

\* _parse_cart_key: the item, the size or None, the list of modifier ids
parse_cart_key(cart_key) ==
    [item_id |-> cart_key[1],
     size |-> IF cart_key[2] # "none" THEN cart_key[2] ELSE None,
     modifier_ids |-> cart_key[3]]

cart_item_matches_item_only(cart_item, item_id, size, modifier_ids) ==
    cart_item.menu_item_id = item_id

\* _cart_item_matches
cart_item_matches(cart_item, item_id, size, modifier_ids) ==
    /\ cart_item.menu_item_id = item_id
    /\ Get(cart_item, "size", None) = size
    /\ sorted(Get(cart_item, "modifier_ids", <<>>)) = sorted(modifier_ids)

\* the indices of the lines of a cart that match a key
MatchingLines(cart, cart_key) ==
    LET k == parse_cart_key(cart_key)
    IN  {i \in DOMAIN cart : cart_item_matches(cart[i], k.item_id, k.size, k.modifier_ids)}

\* a callback query cart:inc:<key> of a user in state browsing_menu, from
\* message m: the first matching line gets one more
cart_increase_callback(user_id, m, cart_key) ==
    /\ state[user_id] = "browsing_menu"
    /\ LET cart == Get(data[user_id], "cart", <<>>)
           matching == MatchingLines(cart, cart_key)
           new_cart == IF matching = {} THEN cart
                       ELSE [cart EXCEPT ![MinOf(matching)].quantity = @ + 1]
       IN  /\ data' = [data EXCEPT ![user_id] = UpdateData(@, [cart |-> new_cart])]
           /\ msgs' = [msgs EXCEPT ![user_id][m] = cart_keyboard(new_cart)]
           /\ last' = [op |-> "cart_increase", user_id |-> user_id, cart_key |-> cart_key]
    /\ UNCHANGED <<ledgerVars, orderVars, state>>

Decreased_keeps_empty_line(cart, cart_key) ==
    LET matching == MatchingLines(cart, cart_key)
    IN  [i \in DOMAIN cart |->
            IF i \in matching THEN [cart[i] EXCEPT !.quantity = @ - 1] ELSE cart[i]]

RECURSIVE Decreased(_, _)
\* the loop of cart_decrease: a matching line with more than one item loses
\* one, a matching line with one item is dropped, the other lines are kept
Decreased(cart, cart_key) ==
    IF cart = <<>> THEN <<>>
    ELSE LET c == Head(cart)
             k == parse_cart_key(cart_key)
             rest == Decreased(Tail(cart), cart_key)
         IN  IF cart_item_matches(c, k.item_id, k.size, k.modifier_ids)
             THEN IF c.quantity > 1
                  THEN <<[c EXCEPT !.quantity = @ - 1]>> \o rest
                  ELSE rest
             ELSE <<c>> \o rest

\* a callback query cart:dec:<key> of a user in state browsing_menu, from
\* message m; an empty cart brings the menu back
cart_decrease_callback(user_id, m, cart_key) ==
    /\ state[user_id] = "browsing_menu"
    /\ LET cart == Get(data[user_id], "cart", <<>>)
           new_cart == Decreased(cart, cart_key)
       IN  /\ data' = [data EXCEPT ![user_id] = UpdateData(@, [cart |-> new_cart])]
           /\ msgs' = [msgs EXCEPT ![user_id][m] =
                          IF new_cart # <<>> THEN cart_keyboard(new_cart)
                          ELSE menu_keyboard(<<>>)]
           /\ last' = [op |-> "cart_decrease", user_id |-> user_id, cart_key |-> cart_key]
    /\ UNCHANGED <<ledgerVars, orderVars, state>>

\* the + button of a line of a cart keyboard
cart_increase(user_id) ==
    \E m \in DOMAIN msgs[user_id] :
        /\ msgs[user_id][m].kind = "cart"
        /\ \E cart_key \in msgs[user_id][m].keys : cart_increase_callback(user_id, m, cart_key)

\* the - button of a line of a cart keyboard
cart_decrease(user_id) ==
    \E m \in DOMAIN msgs[user_id] :
        /\ msgs[user_id][m].kind = "cart"
        /\ \E cart_key \in msgs[user_id][m].keys : cart_decrease_callback(user_id, m, cart_key)

(***************************************************************************)
(* Texts of messages.  A text is a core of n characters between `lead`     *)
(* leading and `trail` trailing whitespace characters; the core neither    *)
(* starts nor ends with whitespace.                                        *)
(***************************************************************************)
\* str.strip()
strip(text) == [text EXCEPT !.lead = 0, !.trail = 0]

\* len(str)
len(text) == text.lead + text.n + text.trail

comment_never_too_long(comment) == FALSE

\* len(comment) > MAX_COMMENT_LENGTH
comment_too_long(comment) == len(comment) > MAX_COMMENT_LENGTH

\* the comment button of a line of a cart keyboard, state browsing_menu: the
\* key of the button is kept and the message asks for the text
start_comment(user_id) ==
    \E m \in DOMAIN msgs[user_id] :
        /\ state[user_id] = "browsing_menu"
        /\ msgs[user_id][m].kind = "cart"
        /\ \E cart_key \in msgs[user_id][m].keys :
              LET cart == Get(data[user_id], "cart", <<>>)
              IN  IF MatchingLines(cart, cart_key) = {}
                  THEN /\ last' = [op |-> "start_comment", user_id |-> user_id,
                                   cart_key |-> cart_key, result |-> "not_found"]
                       /\ UNCHANGED sessionVars
                  ELSE /\ data' = [data EXCEPT ![user_id] =
                                      UpdateData(@, [commenting_cart_key |-> cart_key])]
                       /\ state' = [state EXCEPT ![user_id] = "entering_comment"]
                       /\ msgs' = [msgs EXCEPT ![user_id][m] = NoKeyboard]
                       /\ last' = [op |-> "start_comment", user_id |-> user_id,
                                   cart_key |-> cart_key, result |-> "started"]
        /\ UNCHANGED <<ledgerVars, orderVars>>

\* /cancel, state entering_comment: the cart is sent in a new message
cancel_comment(user_id) ==
    /\ state[user_id] = "entering_comment"
    /\ FreeIds(msgs[user_id], ClientMsgIds) # {}
    /\ state' = [state EXCEPT ![user_id] = "browsing_menu"]
    /\ data' = [data EXCEPT ![user_id] = UpdateData(@, [commenting_cart_key |-> None])]
    /\ msgs' = [msgs EXCEPT ![user_id] =
                   @ @@ (NewMsgId(@, ClientMsgIds) :>
                            cart_keyboard(Get(data[user_id], "cart", <<>>)))]
    /\ last' = [op |-> "cancel_comment", user_id |-> user_id]
    /\ UNCHANGED <<ledgerVars, orderVars>>

\* a text message that is no /start and no /cancel, state entering_comment.
\* The answer to a text that is too long is a text without a keyboard, which
\* is not kept among the messages.
save_comment(user_id, text) ==
    LET comment == strip(text)
        cart_key == Get(data[user_id], "commenting_cart_key", None)
        cart == Get(data[user_id], "cart", <<>>)
        matching == IF cart_key = None THEN {} ELSE MatchingLines(cart, cart_key)
        new_cart == [cart EXCEPT ![MinOf(matching)] = UpdateData(@, [comment |-> comment])]
    IN  /\ state[user_id] = "entering_comment"
        /\ IF comment_too_long(comment)
           THEN /\ last' = [op |-> "save_comment", user_id |-> user_id, text |-> text,
                            result |-> "too_long"]
                /\ UNCHANGED sessionVars
           ELSE IF matching = {}
           THEN /\ state' = [state EXCEPT ![user_id] = "browsing_menu"]
                /\ last' = [op |-> "save_comment", user_id |-> user_id, text |-> text,
                            result |-> "not_found"]
                /\ UNCHANGED <<data, msgs>>
           ELSE /\ FreeIds(msgs[user_id], ClientMsgIds) # {}
                /\ data' = [data EXCEPT ![user_id] =
                               UpdateData(@, [cart |-> new_cart,
                                              commenting_cart_key |-> None])]
                /\ state' = [state EXCEPT ![user_id] = "browsing_menu"]
                /\ msgs' = [msgs EXCEPT ![user_id] =
                               @ @@ (NewMsgId(@, ClientMsgIds) :> cart_keyboard(new_cart))]
                /\ last' = [op |-> "save_comment", user_id |-> user_id, text |-> text,
                            result |-> "saved"]
        /\ UNCHANGED <<ledgerVars, orderVars>>

(***************************************************************************)
(* Specification SpecCartEdit: one client fills a cart, opens it, changes  *)
(* quantities and writes comments; /start is sent at most twice, so the    *)
(* cart keyboard of the first session can be pressed in the second.        *)
(***************************************************************************)
MaxEditQty == 3    \* SpecCartEdit: items in a cart

\* texts sent while a comment is awaited: short, at the limit, over the limit,
\* and one at the limit with whitespace around it
Texts ==
    {[lead |-> 0, n |-> 3, trail |-> 0],
     [lead |-> 0, n |-> MAX_COMMENT_LENGTH, trail |-> 0],
     [lead |-> 0, n |-> MAX_COMMENT_LENGTH + 1, trail |-> 0],
     [lead |-> 1, n |-> MAX_COMMENT_LENGTH, trail |-> 1]}

NextCartEdit ==
    \/ (Cardinality(DOMAIN msgs[1]) < 2 /\ cmd_start(1))
    \/ (add_to_cart(1) /\ CartWithin(1, MaxEditQty))
    \/ select_size_back(1)
    \/ (select_size(1) /\ CartWithin(1, MaxEditQty))
    \/ show_cart(1)
    \/ cart_back_to_menu(1)
    \/ (cart_increase(1) /\ CartWithin(1, MaxEditQty))
    \/ cart_decrease(1)
    \/ start_comment(1)
    \/ cancel_comment(1)
    \/ \E text \in Texts : save_comment(1, text)

SpecCartEdit == InitLedger /\ [][NextCartEdit]_vars

\* the cart of the session before and after a step
CartOf(u) == Get(data[u], "cart", <<>>)

CartAfter(u) == Get(data'[u], "cart", <<>>)

\* the step changes nothing of line i but its comment
SameButComment(u, i) ==
    /\ DOMAIN CartAfter(u)[i] \ {"comment"} = DOMAIN CartOf(u)[i] \ {"comment"}
    /\ \A f \in DOMAIN CartOf(u)[i] \ {"comment"} : CartAfter(u)[i][f] = CartOf(u)[i][f]

\* the step sets the comment of exactly the line whose key start_comment
\* kept, changes no other line and no quantity, and returns to browsing
CommentSaved(u, comment) ==
    LET captured == MatchingLines(CartOf(u), data[u].commenting_cart_key)
    IN  /\ Cardinality(captured) = 1
        /\ Len(CartAfter(u)) = Len(CartOf(u))
        /\ \A i \in DOMAIN CartOf(u) :
              IF i \in captured
              THEN /\ SameButComment(u, i)
                   /\ CartAfter(u)[i].comment = comment
              ELSE CartAfter(u)[i] = CartOf(u)[i]
        /\ state'[u] = "browsing_menu"

\* the step leaves the cart and the state entering_comment
CommentRefused(u) ==
    /\ CartAfter(u) = CartOf(u)
    /\ state'[u] = "entering_comment"

\* cancel and start_comment with a key of no line
CommentOtherSteps ==
    /\ last'.op = "cancel_comment" =>
          /\ state'[last'.user_id] = "browsing_menu"
          /\ CartAfter(last'.user_id) = CartOf(last'.user_id)
    /\ (last'.op = "start_comment" /\
        MatchingLines(CartOf(last'.user_id), last'.cart_key) = {}) =>
          /\ state'[last'.user_id] = "browsing_menu"
          /\ data' = data

\* C25 as stated, the 100 characters counted on the text as sent: violated by
\* a text of 102 characters that starts and ends with a space
C25_CommentEntryRawLength ==
    [][/\ (last'.op = "save_comment" /\ len(last'.text) <= MAX_COMMENT_LENGTH) =>
              CommentSaved(last'.user_id, strip(last'.text))
       /\ (last'.op = "save_comment" /\ len(last'.text) > MAX_COMMENT_LENGTH) =>
              CommentRefused(last'.user_id)
       /\ CommentOtherSteps]_vars

\* C25 (amended): in state entering_comment a text that has at most 100
\* characters once its leading and trailing whitespace is removed sets the
\* comment of exactly the cart line whose key start_comment kept (every other
\* line and every quantity unchanged) and returns to browsing; a text that
\* still has more than 100 characters leaves the cart and the state
\* entering_comment; cancel returns to browsing with every comment unchanged;
\* start_comment with a key of no cart line leaves the state browsing.
C25_CommentEntry ==
    [][/\ (last'.op = "save_comment" /\ len(strip(last'.text)) <= MAX_COMMENT_LENGTH) =>
              CommentSaved(last'.user_id, strip(last'.text))
       /\ (last'.op = "save_comment" /\ len(strip(last'.text)) > MAX_COMMENT_LENGTH) =>
              CommentRefused(last'.user_id)
       /\ CommentOtherSteps]_vars

\* a comment of 100 characters was saved on one line of a cart of two lines
C25_Witness ==
    /\ last.op = "save_comment"
    /\ last.result = "saved"
    /\ len(strip(last.text)) = MAX_COMMENT_LENGTH
    /\ Len(CartOf(1)) = 2
    /\ \E i \in DOMAIN CartOf(1) : "comment" \in DOMAIN CartOf(1)[i]
    /\ \E i \in DOMAIN CartOf(1) : "comment" \notin DOMAIN CartOf(1)[i]

\* a text that is too long was refused
C25_TooLongRefused ==
    /\ last.op = "save_comment"
    /\ last.result = "too_long"
    /\ state[1] = "entering_comment"

\* the comment button of a line that is no longer in the cart was pressed
C25_StaleCommentButton ==
    /\ last.op = "start_comment"
    /\ last.result = "not_found"
    /\ CartOf(1) # <<>>

\* a text of 102 characters was saved as a comment of 100
C25_PaddedTextSaved ==
    /\ last.op = "save_comment"
    /\ last.result = "saved"
    /\ len(last.text) > MAX_COMMENT_LENGTH

\* every line of the cart of every session has at least one item
QuantitiesPositive ==
    \A u \in Users : \A i \in DOMAIN CartOf(u) : CartOf(u)[i].quantity >= 1

\* the step leaves every line but line i of the cart as it was, in its place
OtherLinesKept(u, i) ==
    /\ Len(CartAfter(u)) = Len(CartOf(u))
    /\ \A j \in DOMAIN CartOf(u) \ {i} : CartAfter(u)[j] = CartOf(u)[j]

\* the cart after the step is the cart before it without line i
LineRemoved(u, i) ==
    /\ Len(CartAfter(u)) = Len(CartOf(u)) - 1
    /\ \A j \in DOMAIN CartAfter(u) :
          CartAfter(u)[j] = IF j < i THEN CartOf(u)[j] ELSE CartOf(u)[j + 1]

IncStep(u, cart_key) ==
    LET matching == MatchingLines(CartOf(u), cart_key)
    IN  /\ state'[u] = state[u]
        /\ Cardinality(matching) <= 1
        /\ matching = {} => CartAfter(u) = CartOf(u)
        /\ \A i \in matching :
              /\ OtherLinesKept(u, i)
              /\ CartAfter(u)[i] = [CartOf(u)[i] EXCEPT !.quantity = @ + 1]

DecStep(u, cart_key) ==
    LET matching == MatchingLines(CartOf(u), cart_key)
    IN  /\ state'[u] = state[u]
        /\ Cardinality(matching) <= 1
        /\ matching = {} => CartAfter(u) = CartOf(u)
        /\ \A i \in matching :
              IF CartOf(u)[i].quantity = 1
              THEN LineRemoved(u, i)
              ELSE /\ OtherLinesKept(u, i)
                   /\ CartAfter(u)[i] = [CartOf(u)[i] EXCEPT !.quantity = @ - 1]

\* C26: inc on a cart line raises its quantity by exactly 1; dec lowers it by
\* 1 and removes the line when the quantity was 1; inc or dec with a key of no
\* line leaves the cart unchanged; neither changes the session state or any
\* other line, and every cart line in every reachable state has quantity >= 1.
C26_QuantityAdjustment ==
    /\ []QuantitiesPositive
    /\ [][/\ last'.op = "cart_increase" => IncStep(last'.user_id, last'.cart_key)
          /\ last'.op = "cart_decrease" => DecStep(last'.user_id, last'.cart_key)]_vars

\* the last item of a line was taken away and the other line is still there
C26_Witness ==
    /\ last.op = "cart_decrease"
    /\ Len(CartOf(1)) = 1
    /\ MatchingLines(CartOf(1), last.cart_key) = {}
    /\ \E m \in DOMAIN msgs[1] :
          /\ msgs[1][m].kind = "cart"
          /\ msgs[1][m].keys = {cart_item_key(CartOf(1)[1])}

\* one line of two was raised to two items
C26_Increased ==
    /\ last.op = "cart_increase"
    /\ Len(CartOf(1)) = 2
    /\ \E i \in MatchingLines(CartOf(1), last.cart_key) : CartOf(1)[i].quantity = 2

\* a - button of an earlier cart, whose line is gone, was pressed
C26_StaleButton ==
    /\ last.op = "cart_decrease"
    /\ \E m \in DOMAIN msgs[1] :
          /\ msgs[1][m].kind = "cart"
          /\ last.cart_key \notin msgs[1][m].keys
          /\ msgs[1][m].keys # {}

(***************************************************************************)
(* SpecImmutable: a returning client orders with points, looks at the      *)
(* history, cancels and repeats orders, while the barista moves the        *)
(* orders on and hides and shows the item they hold.                       *)
(***************************************************************************)
MaxImmutableOrders == 2    \* SpecImmutable: rows of table orders
MaxImmutableQty == 1       \* SpecImmutable: items in a cart
MaxImmutableMsgs == 2      \* SpecImmutable: messages in the client chat

NextImmutable ==
    \/ (state[1] = None /\ MsgsWithin(1, MaxImmutableMsgs) /\ cmd_start(1))
    \/ (add_to_cart(1) /\ last'.item_id \in CancelItems /\ CartWithin(1, MaxImmutableQty))
    \/ (select_size(1) /\ CartWithin(1, MaxImmutableQty))
    \/ show_cart(1)
    \/ checkout(1)
    \/ (select_time(1) /\ last'.minutes \in CheckoutMinutes)
    \/ bonus_use(1)
    \/ (confirm_order(1) /\ last'.failed = {} /\ Len(orders') <= MaxImmutableOrders)
    \/ (MsgsWithin(1, MaxImmutableMsgs) /\ Len(orders) > 1 /\ cmd_history(1))
    \/ history_view_order(1)
    \/ (cancel_order(1) /\ last'.fault = "none")
    \/ (repeat_order(1) /\ CartWithin(1, MaxImmutableQty))
    \/ cmd_barista
    \/ show_order_detail
    \/ (change_status /\ last'.delivered = last'.notified)
    \/ cmd_menu_manage
    \/ (toggle_menu_item /\ last'.item_id \in CancelItems)

SpecImmutable == InitCheckoutStale /\ [][NextImmutable]_vars

\* the step keeps every order, and of each all but the status
OrdersKept ==
    /\ Len(orders') >= Len(orders)
    /\ \A id \in DOMAIN orders :
          /\ orders'[id].items = orders[id].items
          /\ orders'[id].total = orders[id].total
          /\ orders'[id].user_id = orders[id].user_id
          /\ orders'[id].pickup_time = orders[id].pickup_time

\* C27: once an order is created, no operation (status change by the staff,
\* cancellation by the client, refund, repeating the order, a later change of
\* the availability of its items) alters its line items, its total, its
\* owner or its pickup time; only the status changes.
C27_OrderImmutable == [][OrdersKept]_vars

\* an order was paid with points, cancelled and refunded, its item is hidden
\* from the menu, and the order still holds the item at its price
C27_Witness ==
    \E id \in DOMAIN orders :
        /\ orders[id].status = CANCELLED
        /\ \E i \in DOMAIN points_history :
              /\ points_history[i].operation = "refund"
              /\ points_history[i].order_id = id
        /\ \A i \in DOMAIN orders[id].items :
              ~menu_available[orders[id].items[i].menu_item_id]
        /\ orders[id].total > 0

\* an order was put into the cart again
C27_Repeated ==
    /\ last.op = "repeat_order"
    /\ last.answer = "added"
    /\ orders[last.order_id].status # CONFIRMED

\* an order that can no longer be repeated, because its item is hidden
C27_RepeatRefused ==
    /\ last.op = "repeat_order"
    /\ last.answer = "all_unavailable"

(***************************************************************************)
(* get_or_create_loyalty at the level of its SQL statements                *)
(* (bot/loyalty.py:17-51).  loyalty.user_id is the PRIMARY KEY of the      *)
(* table (bot/database.py), so a plain INSERT of a user that has a row     *)
(* raises sqlite3.IntegrityError; the exception leaves the function and    *)
(* the connection is closed.                                               *)
(***************************************************************************)
\* SELECT points, stamps, total_orders, total_spent FROM loyalty WHERE
\* user_id = ? ; a row is returned at once
SelectAccount(i) ==
    /\ Running(i)
    /\ Statement(i) = "SELECT_ACCOUNT"
    /\ LET c == calls[i]
           t == TablesSeenBy(i)
       IN  calls' = IF c.user_id \in DOMAIN t.loyalty
                    THEN Return(i, t.loyalty[c.user_id])
                    ELSE Advance(i)
    /\ UNCHANGED <<loyalty, points_history, txn, orderVars, sessionVars, last>>

\* INSERT INTO loyalty (user_id) VALUES (?): waits for the write lock, then
\* inserts the row or fails on the primary key
Insert(i) ==
    /\ Running(i)
    /\ Statement(i) = "INSERT"
    /\ txn.owner = 0
    /\ LET c == calls[i]
       IN  IF c.user_id \in DOMAIN loyalty
           THEN /\ calls' = [calls EXCEPT ![i].status = "raised"]
                /\ UNCHANGED txn
           ELSE /\ txn' = [owner |-> i,
                           loyalty |-> loyalty @@ (c.user_id :> NewLoyaltyRow),
                           history |-> points_history]
                /\ calls' = Advance(i)
    /\ UNCHANGED <<loyalty, points_history, orderVars, sessionVars, last>>

\* db.commit() and the return of the zero record
CommitInsert(i) ==
    /\ Running(i)
    /\ Statement(i) = "COMMIT_INSERT"
    /\ txn.owner = i
    /\ loyalty' = txn.loyalty
    /\ txn' = NoTxn
    /\ calls' = Return(i, NewLoyaltyRow)
    /\ UNCHANGED <<points_history, orderVars, sessionVars, last>>

(***************************************************************************)
(* SpecGetOrCreate: a batch of ledger calls for one user, among them       *)
(* get_or_create_loyalty, run statement by statement in any interleaving;  *)
(* the user has an account or has none.                                    *)
(***************************************************************************)
MaxGetOrCreateCalls == 3   \* SpecGetOrCreate: calls in a batch

GetOrCreateTemplates ==
    <<[op |-> "get_or_create_loyalty", user_id |-> 1, arg |-> 0, order_id |-> 0],
      [op |-> "get_or_create_loyalty", user_id |-> 1, arg |-> 0, order_id |-> 0],
      [op |-> "accrue_points", user_id |-> 1, arg |-> 250, order_id |-> 2],
      [op |-> "increment_stamps", user_id |-> 1, arg |-> 0, order_id |-> 0]>>

InitGetOrCreate ==
    /\ \/ loyalty = <<>> /\ points_history = <<>>
       \/ OneOrderAccount
    /\ orders = <<>>
    /\ views = <<>>
    /\ menu_available = seeded_available
    /\ state = [u \in Users |-> None]
    /\ data = [u \in Users |-> <<>>]
    /\ msgs = [u \in Users |-> <<>>]
    /\ \E batch \in SUBSET DOMAIN GetOrCreateTemplates :
          /\ batch # {}
          /\ Cardinality(batch) <= MaxGetOrCreateCalls
          /\ calls = [i \in batch |-> NewCall(GetOrCreateTemplates[i])]
    /\ txn = NoTxn
    /\ last = [op |-> "batch", loyalty |-> loyalty, history |-> points_history]

NextGetOrCreate ==
    \/ NextTxn
    \/ \E i \in DOMAIN calls : SelectAccount(i)
    \/ \E i \in DOMAIN calls : Insert(i)
    \/ \E i \in DOMAIN calls : CommitInsert(i)

SpecGetOrCreate == InitGetOrCreate /\ [][NextGetOrCreate]_vars

\* the calls of get_or_create_loyalty in the batch
GetOrCreateCalls == {i \in DOMAIN calls : calls[i].op = "get_or_create_loyalty"}

\* C28: get_or_create_loyalty never fails: under every interleaving with the
\* other ledger operations on the same user (a second get_or_create_loyalty,
\* an accrue_points or increment_stamps that creates the account between its
\* read and its insert) it returns an account record without raising, the
\* user then has an account row, and a row it created has no points and no
\* stamps.
C28_GetOrCreateNeverFails ==
    \A i \in GetOrCreateCalls :
        /\ calls[i].status # "raised"
        /\ calls[i].status = "returned" =>
              /\ calls[i].user_id \in DOMAIN loyalty
              /\ (calls[i].user_id \notin DOMAIN last.loyalty /\ calls[i].pc = 3) =>
                    /\ calls[i].ret.points = 0
                    /\ calls[i].ret.stamps = 0

\* a call found no row, another call created the row, and the INSERT of the
\* first call raised
C28_InsertRaised ==
    \E i \in GetOrCreateCalls :
        /\ calls[i].status = "raised"
        /\ calls[i].pc = 2
        /\ calls[i].user_id \notin DOMAIN last.loyalty
        /\ calls[i].user_id \in DOMAIN loyalty

\* the row was created by accrue_points or increment_stamps, not by a second
\* get_or_create_loyalty
C28_RaisedAfterAccrual ==
    /\ C28_InsertRaised
    /\ \A i \in GetOrCreateCalls : calls[i].status # "returned"

\* a call created the account and returned the zero record
C28_Created ==
    \E i \in GetOrCreateCalls :
        /\ calls[i].status = "returned"
        /\ calls[i].pc = 3
        /\ calls[i].ret = NewLoyaltyRow
        /\ loyalty[calls[i].user_id] = NewLoyaltyRow

(***************************************************************************)
(* Claims about the redemption rows of points_history.                     *)
(***************************************************************************)
\* the rows of the history that are redemptions
Redemptions(H) == {i \in DOMAIN H : H[i].operation = "redemption"}

OneRedemptionPerOrder ==
    \A i, j \in Redemptions(points_history) :
        points_history[i].order_id = points_history[j].order_id => i = j

\* a step that adds a redemption row is a confirmation, adds one row only,
\* and the row names the order the step has created
RedeemedAtConfirmation ==
    Redemptions(points_history') # Redemptions(points_history) =>
        /\ last'.op = "confirm_order"
        /\ Len(orders') = Len(orders) + 1
        /\ Cardinality(Redemptions(points_history') \ Redemptions(points_history)) = 1
        /\ \A i \in Redemptions(points_history') \ Redemptions(points_history) :
              /\ i > Len(points_history)
              /\ points_history'[i].order_id = Len(orders')

\* C29: each order id has at most one redemption entry in the history in
\* every reachable state, because points are redeemed only by the
\* confirmation, once, with the id of the order it has just created.
C29_OneRedemptionPerOrder ==
    /\ []OneRedemptionPerOrder
    /\ [][RedeemedAtConfirmation]_vars

\* two orders were paid with points, each has its own redemption row
C29_Witness ==
    /\ last.op = "confirm_order"
    /\ last.bonus_used > 0
    /\ Cardinality(Redemptions(points_history)) = 2
    /\ \A i \in Redemptions(points_history) : points_history[i].order_id \in DOMAIN orders

(***************************************************************************)
(* SpecStart: a returning client goes through the menu, the cart, the      *)
(* comment and the checkout up to the confirmation and sends /start at     *)
(* any point, at most twice.                                               *)
(***************************************************************************)
MaxStartQty == 1       \* SpecStart: items in a cart

\* the menu buttons the client presses in SpecStart: an item with sizes and
\* modifiers and an item with sizes only
StartItems == {3, 4}

NextStart ==
    \/ (Cardinality(DOMAIN msgs[1]) < 2 /\ cmd_start(1))
    \/ (add_to_cart(1) /\ last'.item_id \in StartItems /\ CartWithin(1, MaxStartQty))
    \/ (select_size(1) /\ CartWithin(1, MaxStartQty))
    \/ toggle_modifier(1)
    \/ (modifiers_done(1) /\ CartWithin(1, MaxStartQty))
    \/ show_cart(1)
    \/ start_comment(1)
    \/ checkout(1)
    \/ (select_time(1) /\ last'.minutes \in CheckoutMinutes)
    \/ bonus_use(1)

SpecStart == InitCheckoutStale /\ [][NextStart]_vars

\* C30: /start, sent in any state of the session (also in the middle of the
\* choice of a size, of modifiers, of the pickup time, of the bonus, at the
\* confirmation or while a comment is awaited), puts the session in state
\* browsing with an empty cart and no pending selection, pickup time or
\* bonus.
C30_SessionStart ==
    [][last'.op = "cmd_start" =>
          /\ state'[last'.user_id] = "browsing_menu"
          /\ DOMAIN data'[last'.user_id] = {"cart"}
          /\ data'[last'.user_id].cart = <<>>]_vars

\* the session has just been started anew and message m of the chat still
\* shows a keyboard of the given kind
StartedOver(kind) ==
    /\ last.op = "cmd_start"
    /\ state[1] = "browsing_menu"
    /\ data[1] = [cart |-> <<>>]
    /\ \E m \in DOMAIN msgs[1] : msgs[1][m].kind = kind

\* /start at the confirmation
C30_Witness == StartedOver("confirm")

\* /start in the middle of the choice of a size, of modifiers, of the pickup
\* time and of the bonus
C30_FromSize == StartedOver("size")

C30_FromModifiers == StartedOver("modifiers")

C30_FromTime == StartedOver("time")

C30_FromBonus == StartedOver("bonus")

\* /start while a comment is awaited: the message of the cart asks for the
\* text and has no keyboard
C30_FromComment == StartedOver("none")

(***************************************************************************)
(* Claims about the pending selection of modifiers.                        *)
(***************************************************************************)
\* the pending selection of a session before and after a step
SelectedOf(u) == Get(data[u], "selected_modifiers", <<>>)

SelectedAfter(u) == Get(data'[u], "selected_modifiers", <<>>)

\* the modifiers in a list
ModifierSet(s) == {s[i] : i \in DOMAIN s}

\* no modifier is twice in the pending selection of any session
SelectionWithoutDuplicates ==
    \A u \in Users : Cardinality(ModifierSet(SelectedOf(u))) = Len(SelectedOf(u))

ToggleStep(u, modifier_id) ==
    /\ ModifierSet(SelectedAfter(u)) =
          IF modifier_id \in ModifierSet(SelectedOf(u))
          THEN ModifierSet(SelectedOf(u)) \ {modifier_id}
          ELSE ModifierSet(SelectedOf(u)) \cup {modifier_id}
    /\ ModifierSet(toggled(SelectedAfter(u), modifier_id)) = ModifierSet(SelectedOf(u))
    /\ state'[u] = state[u]
    /\ state'[u] = "selecting_modifiers"
    /\ Get(data'[u], "cart", <<>>) = Get(data[u], "cart", <<>>)

\* C31: in state selecting_modifiers a toggle of a modifier adds it to the
\* pending selection if it is absent and removes it if it is present, so a
\* second toggle of the same modifier restores the selection; the toggle
\* changes neither the state nor the cart, and the pending selection never
\* holds a modifier twice.
C31_ModifierToggle ==
    /\ []SelectionWithoutDuplicates
    /\ [][last'.op = "toggle_modifier" => ToggleStep(last'.user_id, last'.modifier_id)]_vars

\* a selected modifier was toggled off while another stays selected and the
\* cart holds a line
C31_Witness ==
    /\ last.op = "toggle_modifier"
    /\ last.modifier_id \notin ModifierSet(SelectedOf(1))
    /\ SelectedOf(1) # <<>>
    /\ Get(data[1], "cart", <<>>) # <<>>

\* two modifiers are selected
C31_TwoSelected ==
    /\ last.op = "toggle_modifier"
    /\ Len(SelectedOf(1)) = 2

(***************************************************************************)
(* The favourites of a client (bot/handlers/client.py:1646-1798,           *)
(* bot/database.py:361-372).  The specifications below hold no action that *)
(* writes table favorites, so the table is the one the session starts      *)
(* with: user 1 has marked an item without options and an item with sizes. *)
(***************************************************************************)
seeded_favorites == (1 :> {1, 4}) @@ (2 :> {})

\* the favourites of a user that are on the menu
get_favorites(user_id) == {id \in seeded_favorites[user_id] : menu_available[id]}

\* a row of buttons for each item; the + button carries fav:order:<id>
favorites_keyboard(items) == [kind |-> "favorites", items |-> items]

\* /favorites: a user without favourites gets a text without a keyboard
cmd_favorites(user_id) ==
    LET favorites == get_favorites(user_id)
    IN  /\ FreeIds(msgs[user_id], ClientMsgIds) # {}
        /\ msgs' = [msgs EXCEPT ![user_id] =
                       @ @@ (NewMsgId(@, ClientMsgIds) :>
                                IF favorites = {} THEN NoKeyboard
                                ELSE favorites_keyboard(favorites))]
        /\ last' = [op |-> "cmd_favorites", user_id |-> user_id]
        /\ UNCHANGED <<ledgerVars, orderVars, state, data>>

\* fav_order: if c["menu_item_id"] == item_id
fav_order_line_matches(c, item_id) == c.menu_item_id = item_id

\* a callback query fav:order:<item_id> of a user; the handler has no state
\* filter and edits no message
fav_order_callback(user_id, item_id) ==
    LET item == get_menu_item(item_id)
        browsing == state[user_id] = "browsing_menu"
        cart == IF browsing THEN Get(data[user_id], "cart", <<>>) ELSE <<>>
        matching == {i \in DOMAIN cart : fav_order_line_matches(cart[i], item_id)}
        new_cart == AddLine(cart, matching,
                            [menu_item_id |-> item_id, price |-> item[1].price,
                             quantity |-> 1])
    IN  /\ IF item = <<>> \/ ~item[1].available
           THEN /\ last' = [op |-> "fav_order", user_id |-> user_id, item_id |-> item_id,
                            result |-> "unavailable"]
                /\ UNCHANGED <<state, data>>
           ELSE /\ state' = [state EXCEPT ![user_id] = "browsing_menu"]
                /\ data' = [data EXCEPT ![user_id] = UpdateData(@, [cart |-> new_cart])]
                /\ last' = [op |-> "fav_order", user_id |-> user_id, item_id |-> item_id,
                            result |-> "added"]
        /\ UNCHANGED <<ledgerVars, orderVars, msgs>>

\* the + button of a row of a favourites keyboard
fav_order(user_id) ==
    \E m \in DOMAIN msgs[user_id] :
        /\ msgs[user_id][m].kind = "favorites"
        /\ \E item_id \in msgs[user_id][m].items : fav_order_callback(user_id, item_id)

(***************************************************************************)
(* SpecFavorites: a returning client fills the cart on every path: the     *)
(* menu, a size, modifiers, an order repeated from the history and the     *)
(* favourites.                                                             *)
(***************************************************************************)
MaxFavoritesQty == 2   \* SpecFavorites: items in a cart

\* the menu buttons the client presses in SpecFavorites
FavoritesMenuItems == {1, 3, 4}

\* the client has picked up an order of one item 4 in size S
InitFavorites ==
    /\ orders = <<[user_id |-> 1,
                   items |-> <<OrderItemOf([menu_item_id |-> 4, price |-> 200,
                                            quantity |-> 1, size |-> "S"])>>,
                   total |-> 200, pickup_time |-> 15, status |-> COMPLETED]>>
    /\ loyalty = (1 :> [points |-> 10, stamps |-> 1, total_orders |-> 1,
                        total_spent |-> 200])
    /\ points_history = <<HistoryEntry(1, 10, "accrual", 1)>>
    /\ views = <<>>
    /\ menu_available = seeded_available
    /\ state = [u \in Users |-> None]
    /\ data = [u \in Users |-> <<>>]
    /\ msgs = [u \in Users |-> <<>>]
    /\ calls = <<>>
    /\ txn = NoTxn
    /\ last = [op |-> "none"]

NextFavorites ==
    \/ (msgs[1] = <<>> /\ cmd_start(1))
    \/ (add_to_cart(1) /\ last'.item_id \in FavoritesMenuItems
                       /\ CartWithin(1, MaxFavoritesQty))
    \/ (select_size(1) /\ CartWithin(1, MaxFavoritesQty))
    \/ (modifiers_done(1) /\ CartWithin(1, MaxFavoritesQty))
    \/ (Cardinality(DOMAIN msgs[1]) < 2 /\ cmd_history(1))
    \/ history_view_order(1)
    \/ (repeat_order(1) /\ CartWithin(1, MaxFavoritesQty))
    \/ cmd_favorites(1)
    \/ (fav_order(1) /\ CartWithin(1, MaxFavoritesQty))

SpecFavorites == InitFavorites /\ [][NextFavorites]_vars

\* the identity keys of the configurations the step adds to the cart
AddedKeys ==
    CASE last'.op = "add_to_cart" /\ last'.result = "added" ->
             {<<last'.item_id, "none", <<>> >>}
      [] last'.op = "fav_order" /\ last'.result = "added" ->
             {<<last'.item_id, "none", <<>> >>}
      [] last'.op \in {"select_size", "modifiers_done"} /\ last'.result = "added" ->
             {<<last'.item_id, IF last'.size # None THEN last'.size ELSE "none",
                sorted(last'.modifier_ids)>>}
      [] last'.op = "repeat_order" /\ last'.answer = "added" ->
             LET items == get_order_items_for_repeat(orders, last'.order_id)
             IN  {cart_item_key(items[i]) : i \in {j \in DOMAIN items : items[j].is_available}}
      [] OTHER -> {}

\* the cart the step adds to: repeat_order and fav_order begin with an empty
\* cart when the session is not browsing
CartAddedTo(u) ==
    IF last'.op \in {"repeat_order", "fav_order"} /\ state[u] # "browsing_menu"
    THEN <<>>
    ELSE CartOf(u)

\* the lines of the cart whose quantity the step has raised
RaisedLines(u) ==
    {i \in DOMAIN CartAddedTo(u) :
        i \in DOMAIN CartAfter(u) /\ CartAfter(u)[i].quantity > CartAddedTo(u)[i].quantity}

AddingOps == {"add_to_cart", "select_size", "modifiers_done", "repeat_order", "fav_order"}

\* C32: on every path that adds an item to the cart (menu button, size,
\* modifiers done, repeat order, order from the favourites) the quantity of
\* an existing line is raised only if the identity key of the line (item,
\* size, sorted modifier ids) is the key of a configuration being added; a
\* line with a size or with modifiers is never raised by the plain item.
C32_NoCrossConfigurationMerge ==
    [][last'.op \in AddingOps =>
          \A i \in RaisedLines(last'.user_id) :
              cart_item_key(CartAddedTo(last'.user_id)[i]) \in AddedKeys]_vars

\* the + button of item 4 in the favourites has raised the line of item 4 in
\* size S
C32_SizedLineRaisedByFavourite ==
    /\ last.op = "fav_order"
    /\ last.result = "added"
    /\ \E i \in DOMAIN CartOf(1) :
          /\ CartOf(1)[i].menu_item_id = last.item_id
          /\ Get(CartOf(1)[i], "size", None) = "S"
          /\ CartOf(1)[i].quantity > 1
    /\ \A i \in DOMAIN CartOf(1) :
          CartOf(1)[i].menu_item_id = last.item_id => Get(CartOf(1)[i], "size", None) # None

(***************************************************************************)
(* Claims about the status of a cancelled order.                           *)
(***************************************************************************)
\* an order that is CANCELLED stays CANCELLED
CancelledStays ==
    \A id \in DOMAIN orders :
        orders[id].status = CANCELLED => orders'[id].status = CANCELLED

\* an order with a refund row is not in preparation, ready or picked up
RefundedNotServed ==
    \A id \in DOMAIN orders :
        RefundRows(points_history, id) # {} =>
            orders[id].status \notin {PREPARING, READY, COMPLETED}

\* C33: CANCELLED is absorbing.  Once the cancellation by the client has set
\* an order to CANCELLED no later action changes its status, also not a
\* status action of the staff sent from an order detail view that was drawn
\* while the order was CONFIRMED; an order whose redeemed points were
\* refunded is never afterwards PREPARING, READY or COMPLETED.
C33_CancelledAbsorbing ==
    /\ [][CancelledStays]_vars
    /\ []RefundedNotServed

\* the barista opened the order while it was CONFIRMED, the client cancelled
\* it and got the 50 points back, and the barista's button then set it to
\* PREPARING
C33_RefundedInPreparation ==
    /\ last.op = "change_status"
    /\ last.old_status = CANCELLED
    /\ orders[last.order_id].status = PREPARING
    /\ \E r \in RefundRows(points_history, last.order_id) : points_history[r].amount = 50
    /\ loyalty[orders[last.order_id].user_id].points >= 50

(***************************************************************************)
(* Claims about the order of lock and read in the ledger functions.        *)
(***************************************************************************)
\* call i has executed its SELECT and has not yet returned
HasRead(i) ==
    /\ Running(i)
    /\ \E k \in 1..(calls[i].pc - 1) : ProgramOf(calls[i].op)[k] = "SELECT"

\* C34: lock before read in every ledger mutation.  In accrue_points,
\* increment_stamps, redeem_points, refund_points and use_free_drink every
\* read whose result decides what is written (the balance, the stamp count,
\* the redemption row looked up by the refund) is made after the call has
\* acquired the write lock of its transaction: a call that has read and has
\* not yet committed holds the lock, so that no other writer can commit
\* between that read and the write.
C34_LockBeforeRead ==
    \A i \in DOMAIN calls : HasRead(i) => txn.owner = i

\* refund_points has read the redemption row and waits at BEGIN IMMEDIATE
\* while another call of the batch holds the write lock
C34_RefundReadWithoutLock ==
    \E i \in DOMAIN calls :
        /\ calls[i].op = "refund_points"
        /\ Running(i)
        /\ Statement(i) = "BEGIN"
        /\ calls[i].row > 0
        /\ txn.owner \notin {0, i}

(***************************************************************************)
(* SpecRepeat: the client has picked up an order of two lines (item 4 in   *)
(* size S twice, item 1 once), fills a cart, goes to the checkout and      *)
(* repeats the order from the history, while the barista hides and shows   *)
(* the two items.                                                          *)
(***************************************************************************)
MaxRepeatQty == 4      \* SpecRepeat: items in a cart

\* the items the client picks and the barista toggles in SpecRepeat
RepeatItems == {1, 4}

InitRepeat ==
    /\ orders = <<[user_id |-> 1,
                   items |-> <<OrderItemOf([menu_item_id |-> 4, price |-> 200,
                                            quantity |-> 2, size |-> "S"]),
                               OrderItemOf([menu_item_id |-> 1, price |-> 120,
                                            quantity |-> 1])>>,
                   total |-> 520, pickup_time |-> 15, status |-> COMPLETED]>>
    /\ loyalty = (1 :> [points |-> 26, stamps |-> 1, total_orders |-> 1,
                        total_spent |-> 520])
    /\ points_history = <<HistoryEntry(1, 26, "accrual", 1)>>
    /\ views = <<>>
    /\ menu_available = seeded_available
    /\ state = [u \in Users |-> None]
    /\ data = [u \in Users |-> <<>>]
    /\ msgs = [u \in Users |-> <<>>]
    /\ calls = <<>>
    /\ txn = NoTxn
    /\ last = [op |-> "none"]

NextRepeat ==
    \/ (msgs[1] = <<>> /\ cmd_start(1))
    \/ (add_to_cart(1) /\ last'.item_id \in RepeatItems /\ CartWithin(1, MaxRepeatQty))
    \/ (select_size(1) /\ CartWithin(1, MaxRepeatQty))
    \/ show_cart(1)
    \/ checkout(1)
    \/ (select_time(1) /\ last'.minutes \in CheckoutMinutes)
    \/ (Cardinality(DOMAIN msgs[1]) < 2 /\ cmd_history(1))
    \/ history_view_order(1)
    \/ (repeat_order(1) /\ CartWithin(1, MaxRepeatQty))
    \/ cmd_menu_manage
    \/ (toggle_menu_item /\ last'.item_id \in RepeatItems)

SpecRepeat == InitRepeat /\ [][NextRepeat]_vars

\* the quantity a list of lines holds of the configuration with key k
QuantityOfKey(lines, k) ==
    CartQuantity(SelectSeq(lines, LAMBDA c : cart_item_key(c) = k))

\* the lines of an order whose menu item is available at this moment
AvailableLines(order_id) ==
    SelectSeq(orders[order_id].items,
              LAMBDA l : l.menu_item_id \in DOMAIN menu_available
                         /\ menu_available[l.menu_item_id])

KeysOf(lines) == {cart_item_key(lines[i]) : i \in DOMAIN lines}

\* the repeat of an own order: the cart it adds to is the cart of a browsing
\* session and the empty cart otherwise
RepeatStep(u, order_id) ==
    LET lines == orders[order_id].items
        added == AvailableLines(order_id)
        base == IF state[u] = "browsing_menu" THEN CartOf(u) ELSE <<>>
        cart == CartAfter(u)
    IN  IF added = <<>>
        THEN /\ state' = state
             /\ data' = data
        ELSE /\ state'[u] = "browsing_menu"
             /\ \A k \in KeysOf(base) \cup KeysOf(cart) \cup KeysOf(lines) :
                   QuantityOfKey(cart, k) = QuantityOfKey(base, k) + QuantityOfKey(added, k)
             /\ Len(cart) >= Len(base)
             /\ \A i \in DOMAIN base : cart[i] = [base[i] EXCEPT !.quantity = cart[i].quantity]
             /\ \A i \in (Len(base) + 1)..Len(cart) :
                   /\ cart_item_key(cart[i]) \notin KeysOf(base)
                   /\ \E j \in DOMAIN added :
                         /\ cart_item_key(added[j]) = cart_item_key(cart[i])
                         /\ cart[i].price = added[j].price
                         /\ cart[i].modifiers_price = added[j].modifiers_price
             /\ \A i, j \in (Len(base) + 1)..Len(cart) :
                   cart_item_key(cart[i]) = cart_item_key(cart[j]) => i = j

\* C35: repeating an own order adds to the cart exactly the order lines
\* whose menu item is available now: the quantity of the line of the same
\* identity key is raised by the ordered quantity, or a line is appended
\* with the price of the order, and unavailable lines are left out; when no
\* line is available the cart and the state stay as they are; when the
\* session was not browsing, the lines are added to an empty cart and the
\* state becomes browsing.
C35_RepeatOrder ==
    [][(/\ last'.op = "repeat_order"
        /\ last'.order_id \in 1..Len(orders)
        /\ orders[last'.order_id].user_id = last'.user_id)
           => RepeatStep(last'.user_id, last'.order_id)]_vars

\* the order was repeated while item 1 was hidden: the line of item 4 in
\* size S was raised by 2 and no line of item 1 was added
C35_Witness ==
    /\ last.op = "repeat_order"
    /\ last.answer = "added"
    /\ ~menu_available[1]
    /\ state[1] = "browsing_menu"
    /\ \E i \in DOMAIN CartOf(1) :
          /\ cart_item_key(CartOf(1)[i]) = <<4, "S", <<>> >>
          /\ CartOf(1)[i].quantity = 3
    /\ \A i \in DOMAIN CartOf(1) : CartOf(1)[i].menu_item_id # 1

\* the order was repeated while both items were hidden: the cart of the
\* session is still there
C35_NothingAvailable ==
    /\ last.op = "repeat_order"
    /\ last.answer = "all_unavailable"
    /\ state[1] = "selecting_time"
    /\ CartOf(1) # <<>>

\* the order was repeated after a pickup time had been chosen: the session
\* is browsing and the cart holds the two lines of the order and no other
C35_CartDiscarded ==
    /\ last.op = "repeat_order"
    /\ last.answer = "added"
    /\ "pickup_time" \in DOMAIN data[1]
    /\ state[1] = "browsing_menu"
    /\ Len(CartOf(1)) = 2
    /\ CartOf(1)[1].menu_item_id = 4 /\ CartOf(1)[1].quantity = 2
    /\ CartOf(1)[2].menu_item_id = 1 /\ CartOf(1)[2].quantity = 1

(***************************************************************************)
(* Claims about the back button of the modifier selection.                 *)
(***************************************************************************)
\* what the back button of the modifiers keyboard of an item does
BackStep(u, menu_item_id) ==
    /\ state'[u] = IF /\ DOMAIN get_menu_item_sizes(menu_item_id) # {}
                      /\ Get(data[u], "selecting_size", None) # None
                   THEN "selecting_size"
                   ELSE "browsing_menu"
    /\ CartAfter(u) = CartOf(u)
    /\ "cart" \in DOMAIN data'[u] <=> "cart" \in DOMAIN data[u]
    /\ SelectedAfter(u) = <<>>

\* a selection of modifiers begins with no modifier selected
SelectionBeginsEmpty ==
    \A u \in Users :
        (state[u] # "selecting_modifiers" /\ state'[u] = "selecting_modifiers")
            => SelectedAfter(u) = <<>>

\* C36: the back button in state selecting_modifiers moves the session to
\* selecting_size when the item has sizes and a size had been chosen, and to
\* browsing otherwise; the cart stays as it is and the pending selection of
\* modifiers is emptied, and every selection of modifiers that begins later
\* begins empty.
C36_ModifiersBack ==
    /\ [][last'.op = "modifiers_back" => BackStep(last'.user_id, last'.item_id)]_vars
    /\ [][SelectionBeginsEmpty]_vars

\* back to the sizes of item 3 after a size had been chosen, with a cart
C36_Witness ==
    /\ last.op = "modifiers_back"
    /\ last.item_id = 3
    /\ state[1] = "selecting_size"
    /\ CartOf(1) # <<>>
    /\ SelectedOf(1) = <<>>

\* back to the menu from the modifiers of item 2, which has no size to choose
C36_BackToMenu ==
    /\ last.op = "modifiers_back"
    /\ last.item_id = 2
    /\ state[1] = "browsing_menu"
    /\ SelectedOf(1) = <<>>

(***************************************************************************)
(* SpecStaff: two orders are in the store; the barista works through the   *)
(* panel and the menu management, and users 1 and 2, who are not baristas, *)
(* send the callback queries of the status buttons and of the menu toggle  *)
(* buttons, for every order id, status and item of a small set.            *)
(***************************************************************************)
\* the items toggled in SpecStaff, with an id of no item
StaffItems == {1, 9}

\* the statuses the callback data of users 1 and 2 names
StaffStatuses == {PREPARING, READY, CANCELLED}

InitStaff ==
    /\ orders = <<[user_id |-> 1,
                   items |-> <<OrderItemOf([menu_item_id |-> 1, price |-> 120,
                                            quantity |-> 1])>>,
                   total |-> 120, pickup_time |-> 15, status |-> CONFIRMED],
                  [user_id |-> 2,
                   items |-> <<OrderItemOf([menu_item_id |-> 4, price |-> 200,
                                            quantity |-> 1, size |-> "S"])>>,
                   total |-> 200, pickup_time |-> 15, status |-> CONFIRMED]>>
    /\ loyalty = (1 :> [points |-> 6, stamps |-> 1, total_orders |-> 1,
                        total_spent |-> 120])
                 @@ (2 :> [points |-> 10, stamps |-> 1, total_orders |-> 1,
                           total_spent |-> 200])
    /\ points_history = <<HistoryEntry(1, 6, "accrual", 1),
                          HistoryEntry(2, 10, "accrual", 2)>>
    /\ views = <<>>
    /\ menu_available = seeded_available
    /\ state = [u \in Users |-> None]
    /\ data = [u \in Users |-> <<>>]
    /\ msgs = [u \in Users |-> <<>>]
    /\ calls = <<>>
    /\ txn = NoTxn
    /\ last = [op |-> "none"]

\* a status callback query sent by a user of the client chats
ChangeStatusByClient ==
    \E u \in Users, order_id \in 1..(Len(orders) + 1), new_status \in StaffStatuses,
       send_ok \in BOOLEAN :
        change_status_callback(u, 1, order_id, new_status, send_ok)

\* a menu toggle callback query sent by a user of the client chats
ToggleMenuItemByClient ==
    \E u \in Users, item_id \in StaffItems :
        toggle_menu_item_callback(u, 1, item_id)

NextStaff ==
    \/ cmd_barista
    \/ show_order_detail
    \/ back_to_list
    \/ change_status
    \/ cmd_menu_manage
    \/ (toggle_menu_item /\ last'.item_id \in StaffItems)
    \/ ChangeStatusByClient
    \/ ToggleMenuItemByClient

SpecStaff == InitStaff /\ [][NextStaff]_vars

StaffOps == {"change_status", "toggle_menu_item"}

\* a status or menu toggle callback of a user outside the barista list
\* writes nothing and notifies nobody
StrangerStep ==
    (last'.op \in StaffOps /\ last'.user_id \notin barista_id_list)
        => /\ orders' = orders
           /\ menu_available' = menu_available
           /\ last'.op = "change_status" => ~last'.notified
           /\ UNCHANGED <<ledgerVars, views, sessionVars>>

\* a status or an availability changes only in a step of a barista
MutatedByStaff ==
    (\/ menu_available' # menu_available
     \/ \E id \in DOMAIN orders : orders'[id].status # orders[id].status)
        => /\ last'.op \in StaffOps
           /\ last'.user_id \in barista_id_list

\* C37: a status change or a menu availability toggle issued by a user who
\* is not in the configured barista list changes no order status and no
\* availability of a menu item and sends no notification; where these
\* handlers change a status or an availability, the caller is in the list.
C37_StaffOnly ==
    /\ [][StrangerStep]_vars
    /\ [][MutatedByStaff]_vars

\* user 2 has sent the callback that would set order 1, now READY by the
\* barista's hand, to cancelled, and was refused
C37_Witness ==
    /\ last.op = "change_status"
    /\ last.user_id = 2
    /\ last.answer = "no_access"
    /\ last.new_status = CANCELLED
    /\ last.order_id = 1
    /\ orders[1].status = READY

\* user 1 has sent the toggle of item 1 and was refused
C37_ToggleRefused ==
    /\ last.op = "toggle_menu_item"
    /\ last.user_id = 1
    /\ last.answer = "no_access"
    /\ last.item_id = 1
    /\ menu_available[1]

\* the barista has hidden item 1
C37_ToggledByBarista ==
    /\ last.op = "toggle_menu_item"
    /\ last.user_id \in barista_id_list
    /\ ~menu_available[1]

(***************************************************************************)
(* Claims about what a client cancellation does to the ledger.             *)
(***************************************************************************)
AccrualRows(H, order_id) ==
    {i \in 1..Len(H) : H[i].order_id = order_id /\ H[i].operation = "accrual"}

\* what the cancellation of an order of user u does to the account of u and
\* to the history
CancelFrame(u, order_id) ==
    LET redeemed == - SumOver(points_history,
                              RedemptionRowsOfOrder(points_history, order_id))
    IN  /\ loyalty'[u].points = loyalty[u].points + redeemed
        /\ loyalty'[u].stamps = loyalty[u].stamps
        /\ loyalty'[u].total_orders = loyalty[u].total_orders
        /\ loyalty'[u].total_spent = loyalty[u].total_spent
        /\ Len(points_history') >= Len(points_history)
        /\ \A i \in 1..Len(points_history) : points_history'[i] = points_history[i]
        /\ AccrualRows(points_history', order_id) = AccrualRows(points_history, order_id)
        /\ \A i \in (Len(points_history) + 1)..Len(points_history') :
              /\ points_history'[i].operation = "refund"
              /\ points_history'[i].amount = redeemed

\* C38: a client cancellation that succeeds changes the points balance of
\* the owner by exactly the amount redeemed for the order (0 if none) and
\* leaves the stamps, the lifetime order count and the lifetime spend as
\* they are; the accrual row of the order stays in the history and no row
\* reverses it.
C38_CancelLedgerFrame ==
    [][(last'.op = "cancel_order" /\ last'.success)
           => CancelFrame(last'.user_id, last'.order_id)]_vars

\* order 2, paid with 50 points, was cancelled by its owner and the call of
\* refund_points raised: the balance is what it was before the cancellation
\* and the 10 points accrued for the order are part of it
C38_BalanceNotRestored ==
    /\ last.op = "cancel_order"
    /\ last.success
    /\ last.order_id = 2
    /\ last.fault = "refund_points"
    /\ SumOver(points_history, RedemptionRowsOfOrder(points_history, 2)) = -50
    /\ loyalty[1].points = 20
    /\ \E i \in AccrualRows(points_history, 2) : points_history[i].amount = 10

(***************************************************************************)
(* confirm_order, step by step (bot/handlers/client.py).  start_polling    *)
(* handles every update in a task of its own (bot/main.py), so a second    *)
(* confirm:yes of the same session can begin while the first handler waits *)
(* at one of its awaits: the store calls and the notification.  A handler  *)
(* in flight is a record in `calls` with what it has read from the session *)
(* and the await it is at; the session is cleared after the last await.    *)
(***************************************************************************)
ConfirmEnded == {"done", "raised"}

ConfirmCalls == {i \in DOMAIN calls : calls[i].op = "confirm_order"}

\* the filter has let the update through and the handler has read the
\* session; `ended_before` notes the handlers that had ended by then
confirm_order_begin(user_id) ==
    \E m \in DOMAIN msgs[user_id] :
        /\ state[user_id] = "confirming"
        /\ msgs[user_id][m].kind = "confirm"
        /\ LET cart_data == Get(data[user_id], "cart", <<>>)
           IN  IF cart_data = <<>>
               THEN /\ UNCHANGED calls
                    /\ last' = [op |-> "confirm_order", user_id |-> user_id,
                                step |-> "empty", call |-> 0]
               ELSE /\ calls' = Append(calls,
                                   [op |-> "confirm_order", user_id |-> user_id, m |-> m,
                                    pc |-> "create_order",
                                    items |-> [i \in DOMAIN cart_data |->
                                                  OrderItemOf(cart_data[i])],
                                    pickup_time |-> Get(data[user_id], "pickup_time", 15),
                                    bonus_used |-> Get(data[user_id], "bonus_used", 0),
                                    order_id |-> 0,
                                    ended_before |-> {j \in ConfirmCalls :
                                                         calls[j].pc \in ConfirmEnded}])
                    /\ last' = [op |-> "confirm_order", user_id |-> user_id,
                                step |-> "begin", call |-> Len(calls) + 1]
        /\ UNCHANGED <<loyalty, points_history, txn, orderVars, sessionVars>>

\* order = await db.create_order(...)
confirm_order_create(i) ==
    /\ i \in ConfirmCalls
    /\ calls[i].pc = "create_order"
    /\ LET created == create_order(orders, calls[i].user_id, calls[i].items,
                                   calls[i].pickup_time)
       IN  /\ orders' = created.orders
           /\ calls' = [calls EXCEPT ![i].order_id = created.order_id,
                                     ![i].pc = IF calls[i].bonus_used > 0
                                               THEN "redeem_points" ELSE "accrue_points"]
    /\ last' = [op |-> "confirm_order", user_id |-> calls[i].user_id,
                step |-> "create_order", call |-> i]
    /\ UNCHANGED <<loyalty, points_history, txn, views, menu_available, sessionVars>>

\* redeem_success = await loyalty.redeem_points(user.id, bonus_used, order.id);
\* bonus_used = 0 when it has failed
confirm_order_redeem(i) ==
    /\ i \in ConfirmCalls
    /\ calls[i].pc = "redeem_points"
    /\ LET redeemed == redeem_points(loyalty, points_history, calls[i].user_id,
                                     calls[i].bonus_used, calls[i].order_id)
       IN  /\ loyalty' = redeemed.loyalty
           /\ points_history' = redeemed.history
           /\ calls' = [calls EXCEPT ![i].bonus_used = IF redeemed.ret THEN @ ELSE 0,
                                     ![i].pc = "accrue_points"]
    /\ last' = [op |-> "confirm_order", user_id |-> calls[i].user_id,
                step |-> "redeem_points", call |-> i]
    /\ UNCHANGED <<txn, orderVars, sessionVars>>

\* points_earned = await loyalty.accrue_points(user.id, order_total, order.id);
\* accrue_points rolls back and raises again what the store raises, and
\* confirm_order does not catch it
confirm_order_accrue(i, raises) ==
    /\ i \in ConfirmCalls
    /\ calls[i].pc = "accrue_points"
    /\ LET order == orders[calls[i].order_id]
           accrued == accrue_points(loyalty, points_history, calls[i].user_id,
                                    accrual_total(order, calls[i].bonus_used),
                                    calls[i].order_id)
       IN  IF raises
           THEN /\ calls' = [calls EXCEPT ![i].pc = "raised"]
                /\ UNCHANGED <<loyalty, points_history>>
           ELSE /\ loyalty' = accrued.loyalty
                /\ points_history' = accrued.history
                /\ calls' = [calls EXCEPT ![i].pc = "increment_stamps"]
    /\ last' = [op |-> "confirm_order", user_id |-> calls[i].user_id,
                step |-> IF raises THEN "raised" ELSE "accrue_points", call |-> i]
    /\ UNCHANGED <<txn, orderVars, sessionVars>>

\* new_stamps, free_drink = await loyalty.increment_stamps(user.id)
confirm_order_stamp(i) ==
    /\ i \in ConfirmCalls
    /\ calls[i].pc = "increment_stamps"
    /\ loyalty' = increment_stamps(loyalty, calls[i].user_id).loyalty
    /\ calls' = [calls EXCEPT ![i].pc = "notify_baristas"]
    /\ last' = [op |-> "confirm_order", user_id |-> calls[i].user_id,
                step |-> "increment_stamps", call |-> i]
    /\ UNCHANGED <<points_history, txn, orderVars, sessionVars>>

\* await _notify_baristas(bot, order, items)
confirm_order_notify(i) ==
    /\ i \in ConfirmCalls
    /\ calls[i].pc = "notify_baristas"
    /\ \E failing \in SUBSET barista_id_list :
          LET notified == notify_baristas(failing)
          IN  /\ calls' = [calls EXCEPT ![i].pc = IF notified.raised THEN "raised"
                                                  ELSE "state_clear"]
              /\ last' = [op |-> "confirm_order", user_id |-> calls[i].user_id,
                          step |-> "notify_baristas", call |-> i,
                          delivered |-> notified.delivered]
    /\ UNCHANGED <<loyalty, points_history, txn, orderVars, sessionVars>>

\* await state.clear() and await msg.edit_text(confirmation_text)
confirm_order_finish(i) ==
    /\ i \in ConfirmCalls
    /\ calls[i].pc = "state_clear"
    /\ state_clear(calls[i].user_id)
    /\ msgs' = [msgs EXCEPT ![calls[i].user_id][calls[i].m] = NoKeyboard]
    /\ calls' = [calls EXCEPT ![i].pc = "done"]
    /\ last' = [op |-> "confirm_order", user_id |-> calls[i].user_id,
                step |-> "done", call |-> i]
    /\ UNCHANGED <<loyalty, points_history, txn, orderVars>>

(***************************************************************************)
(* SpecConfirm: the returning customer goes once from /start to the        *)
(* confirmation of one item 4 in size S, with or without points, and       *)
(* presses confirm:yes up to twice; the handlers run step by step and      *)
(* accrue_points may raise.                                                *)
(***************************************************************************)
MaxConfirmCalls == 2   \* SpecConfirm: confirm handlers begun
MaxConfirmQty == 1     \* SpecConfirm: items in a cart

NextConfirm ==
    \/ (msgs[1] = <<>> /\ cmd_start(1))
    \/ (add_to_cart(1) /\ last'.item_id \in CancelItems /\ CartWithin(1, MaxConfirmQty))
    \/ (select_size(1) /\ CartWithin(1, MaxConfirmQty))
    \/ show_cart(1)
    \/ checkout(1)
    \/ (select_time(1) /\ last'.minutes \in CheckoutMinutes)
    \/ bonus_skip(1)
    \/ bonus_use(1)
    \/ (Len(calls) < MaxConfirmCalls /\ confirm_order_begin(1))
    \/ \E i \in DOMAIN calls : confirm_order_create(i)
    \/ \E i \in DOMAIN calls : confirm_order_redeem(i)
    \/ \E i \in DOMAIN calls, raises \in BOOLEAN : confirm_order_accrue(i, raises)
    \/ \E i \in DOMAIN calls : confirm_order_stamp(i)
    \/ \E i \in DOMAIN calls : confirm_order_notify(i)
    \/ \E i \in DOMAIN calls : confirm_order_finish(i)

SpecConfirm == InitCheckoutStale /\ [][NextConfirm]_vars

\* the orders, history rows and stamps that the confirm handlers have added
\* to those of the customer's earlier order
OrdersProduced == Len(orders) - 1
RedemptionsProduced ==
    Cardinality({i \in 1..Len(points_history) : points_history[i].operation = "redemption"})
AccrualsProduced ==
    Cardinality({i \in 1..Len(points_history) : points_history[i].operation = "accrual"}) - 1
StampsProduced == loyalty[1].stamps - 1

\* C39: a session that reaches confirming once produces exactly one order,
\* at most one redemption, one accrual and one stamp, also when two confirm
\* actions of the session are delivered and their handlers interleave at
\* the store and notification awaits, and when the confirm is repeated
\* after a confirm that failed once the order was stored.
C39_OneOrderPerCart ==
    /\ OrdersProduced <= 1
    /\ RedemptionsProduced <= 1
    /\ AccrualsProduced <= 1
    /\ StampsProduced <= 1
    /\ (\E i \in ConfirmCalls : calls[i].pc = "done")
          => /\ OrdersProduced = 1
             /\ AccrualsProduced = 1
             /\ StampsProduced = 1

\* the second handler began while the first waited for the store; both ran
\* to their end: two orders, two accruals and two stamps for one cart
C39_TwoOrdersInterleaved ==
    /\ Len(calls) = 2
    /\ calls[1].pc = "done"
    /\ calls[2].pc = "done"
    /\ calls[2].ended_before = {}
    /\ calls[1].items = calls[2].items
    /\ OrdersProduced = 2
    /\ AccrualsProduced = 2
    /\ StampsProduced = 2

\* accrue_points raised in the first handler after order 2 was stored; the
\* confirm button was pressed again and the second handler stored order 3
C39_TwoOrdersAfterFailure ==
    /\ Len(calls) = 2
    /\ calls[1].pc = "raised"
    /\ calls[1].order_id = 2
    /\ calls[2].ended_before = {1}
    /\ calls[2].pc = "done"
    /\ calls[2].order_id = 3
    /\ OrdersProduced = 2

====
